---- MODULE Spec2Model ----
(***************************************************************************)
(* Model of the deal reconciliation engine PloomesSync.process_cnj_list    *)
(* (src/src/sync/ploomes_sync.py) running against a CRM (Ploomes) and the  *)
(* partner platform (Parceiros).  Every client call is one step; a call    *)
(* may succeed, return its failure value, or raise.                        *)
(***************************************************************************)
EXTENDS Integers, Sequences, FiniteSets, TLC

\* ------------------------------------------------------------------------
\* Bounds of the model
\* ------------------------------------------------------------------------
MaxList == 2
NumDeals == 2
MaxWorkers == 2
MaxRequests == 4
MaxRuns == 2
MaxDigits == 21
MaxPhoneDigits == 12
MaxTicks == 6
MaxCalls == 2

\* ------------------------------------------------------------------------
\* Program constants
\* ------------------------------------------------------------------------
target_stage_id == 999
deletion_stage_id == 888
\* the entry "Mesa JPA" of ORIGIN_PIPELINE_CONFIG
MappedPipeline == 110065217
MappedStage == 110352811
\* a pipeline that has no entry in origin_config
UnmappedPipeline == MappedPipeline + 1
\* another stage of the origin pipelines
OtherStage == 110352813
\* StageId of a deal that has been deleted: no search returns it
NoStage == 0
\* the origin deals that the deals of the CRM refer to
OriginA == 456
OriginB == OriginA + 1

\* PloomesClient: retry loop and pacing (intervals in units of 1/32 s)
max_retries == 3
backoff_factor == 1
InitialInterval == 16
IntervalCap == 64

SEM_CNJ == "sem CNJ"
\* case numbers in the canonical spelling NNNNNNN-DD.AAAA.J.TR.OOOO
CNJ == {"A", "B"}
\* the same case numbers written as raw digits, as a spreadsheet may hold them
RawCNJ == {"a", "b"}
Spellings == CNJ \cup RawCNJ
ErrDescs == {"", "Campo CNJ invalido", "Lead JA EXISTE"}

DealIds == 1..NumDeals
OriginIds == {OriginA, OriginB}

VARIABLES
    cnj_list,        \* argument of process_cnj_list
    cnj_errors,      \* self.cnj_errors ("" = no entry)
    dry_run,         \* self.dry_run
    has_parceiros,   \* self.parceiros_client is not None
    crm,             \* CRM state: deal id -> [StageId, LastInteractionRecordId, notes]
    crm0,            \* CRM state when the run started
    token,           \* parceiros_client.token is set
    pc,              \* phase the calling thread is in
    step,            \* position inside the phase
    preserved,       \* self.cnj_list
    deletion_stage_empty,
    tasks,           \* futures submitted to the executor
    results,         \* local list `results`
    report,          \* SyncReport
    queue,           \* deals of the current loop still to be handled
    cur,             \* locals of _move_origin_deal / the cleanup loop body
    counts,          \* deleted/skipped locals of the purge and cleanup loops
    target_delete_stats,  \* what _delete_all_deals_in_target_stage returned
    lastCall,        \* client call issued by the last step: <<operation, code block, argument>>
    raised,          \* the last step caught an exception
    \* PloomesClient._make_request
    min_request_interval,  \* self.min_request_interval, in units of 1/32 s
    attempt,         \* loop variable of the retry loop
    req,             \* "idle", "attempting", "returned" or "raised"
    response,        \* what the last attempt received ("" before the first)
    waited,          \* seconds of backoff sleep made by the last step
    requests,        \* calls of _make_request made through the client
    \* the environment of repeated runs
    run,             \* which call of process_cnj_list this is
    reliable,        \* in the runs up to this one no client call fails or raises
    parceiros,       \* what Parceiros holds, when that is fixed across runs
    \* the field normalizers
    input,           \* the string passed to the normalizer, as its characters
    output,          \* what the normalizer returned
    applied,         \* which normalizer was called ("" before the call)
    registry,        \* valid_names: the keys of the office registry of the mesa
    mesa,            \* the business unit of the transformer
    title,           \* what _find_escritorio_from_ploomes returns for the row
    \* the delete_deals command
    args,            \* what the command line and the environment hold
    main_pc,         \* position of main ("" = main is not running)
    exit_code,       \* exit status of the process (-1 while it runs)
    exited_at,       \* the statement of main that ended the process
    \* PloomesClient._apply_rate_limit, called by several threads
    now,             \* time.time(), in units of 1/32 s
    last_request_time,  \* self.last_request_time
    thread,          \* per thread: where it is in _make_request, locals, calls made
    sent,            \* the times at which session.request was called, in order
    \* the methods of PloomesClient
    method,          \* the method that was called last ("" = none yet)
    result,          \* what it returned, or the exception that escaped ("" while it runs)
    \* PlanilhaTransformer.transform
    rows,            \* input_df: per row the office cell and the case number
    with_client,     \* self.ploomes_client and self.deletion_stage_id
    transform_pc,    \* position of transform ("" = not called)
    row_idx,         \* idx of the loop over escritorio_series
    offices,         \* escritorio_series
    lookups,         \* per row, the client methods called for it, in order
    \* the office registry cache of the normalizers
    cache,           \* _ESCRITORIOS_CACHE: cache key -> registry (NotCached = no entry)
    files,           \* what the backing files hold
    loads,           \* the calls of _load_valid_escritorios made, in order
    \* remove_duplicate_deals
    pipeline_deals,  \* the deals of the pipeline, in the order the API lists them
    simulate,        \* the dry_run argument
    dup_pc,          \* position of remove_duplicate_deals ("" = not called)
    fetched,         \* the local list `deals`
    to_delete,       \* the deals of deals_to_delete, of all groups, still to be handled
    attempts,        \* the ids delete_deal was called with
    total_deleted    \* the local counter

\* the variables of PloomesClient._make_request
clientVars == <<min_request_interval, attempt, req, response, waited, requests>>

\* the variables of the reconciliation engine
engineVars == <<cnj_list, cnj_errors, dry_run, has_parceiros, crm, crm0, token, pc,
                step, preserved, deletion_stage_empty, tasks, results, report,
                queue, cur, counts, target_delete_stats, lastCall, raised>>

\* the environment of the runs
envVars == <<run, reliable, parceiros>>

\* the variables of a call of a field normalizer
pureVars == <<input, output, applied, registry, mesa, title>>

\* what neither the engine nor the client touches
\* the variables of main of delete_deals
cliVars == <<args, main_pc, exit_code, exited_at>>

\* the variables of the pacing of requests
paceVars == <<now, last_request_time, thread, sent>>

\* the variables of a call of a method of the client
opVars == <<method, result>>

\* the variables of a call of transform
rowVars == <<rows, with_client, transform_pc, row_idx, offices, lookups>>

\* the variables of the office registry cache
cacheVars == <<cache, files, loads>>

\* the variables of a call of remove_duplicate_deals
dupVars == <<pipeline_deals, simulate, dup_pc, fetched, to_delete, attempts, total_deleted>>

lateVars == <<rowVars, cacheVars, dupVars>>

auxVars == <<pureVars, cliVars, paceVars, opVars, lateVars>>

vars == <<engineVars, clientVars, envVars, auxVars>>

\* what no step of process_cnj_list changes
cfgVars == <<cnj_list, cnj_errors, dry_run, has_parceiros, crm0, clientVars, envVars,
             auxVars>>

\* ------------------------------------------------------------------------
\* Static attributes of the deals of the CRM
\* ------------------------------------------------------------------------
\* custom field deal_20E8290A-... (StringValue) of each deal
CnjField(d) == IF d = 1 THEN "A" ELSE IF d = 2 THEN "B" ELSE ""

\* case number that the regular expression finds in the Title
TitleCnj(d) == IF d = 3 THEN "A" ELSE ""

OriginDealId(d) == IF d = 1 THEN OriginA ELSE IF d = 2 THEN OriginB ELSE 0

PipelineId(o) == IF o = OriginA THEN MappedPipeline ELSE UnmappedPipeline

\* faulty variant: a pipeline without an entry is given the stage of another
origin_config_or_default(pipeline) == MappedStage

\* ORIGIN_PIPELINE_CONFIG lookup by pipeline id; 0 = no entry
origin_config(pipeline) == IF pipeline = MappedPipeline THEN MappedStage ELSE 0

\* ------------------------------------------------------------------------
\* Pure helpers
\* ------------------------------------------------------------------------
RECURSIVE SortedSeq(_)
SortedSeq(S) ==
    IF S = {} THEN <<>>
    ELSE LET m == CHOOSE x \in S : \A y \in S : x <= y
         IN <<m>> \o SortedSeq(S \ {m})

\* faulty variant: no error description takes a CNJ out of the preserve set
NeverJaExiste(desc) == FALSE

\* "já existe" in error_description.lower()
JaExiste(desc) == desc = "Lead JA EXISTE"

\* normalize_cnj: the 20 digits of the string in the canonical spelling, ""
\* (None) for any other digit count; "a" and "b" are the digits-only
\* spellings of "A" and "B"
normalize_cnj(c) ==
    IF c \in CNJ THEN c
    ELSE IF c = "a" THEN "A"
    ELSE IF c = "b" THEN "B"
    ELSE ""

extract_cnj_from_deal(d) ==
    IF CnjField(d) # "" THEN CnjField(d)
    ELSE IF TitleCnj(d) # "" THEN TitleCnj(d)
    ELSE ""

\* cnj_label = self._extract_cnj_from_deal(deal) or "sem CNJ"
CnjLabel(d) == IF extract_cnj_from_deal(d) = "" THEN SEM_CNJ ELSE extract_cnj_from_deal(d)

\* preserved_cnjs of process_cnj_list
PreservedCnjs(list, errors) ==
    {list[i] : i \in {j \in DOMAIN list : ~JaExiste(errors[list[j]])}}

\* what the CRM answers to search_deals_by_stage
search_deals_by_stage(c, stage) ==
    SortedSeq({d \in DealIds : c[d].StageId = stage})

\* what the CRM answers to search_deals_by_cnj: deals whose custom field holds
\* the normalized case number, each with the stage it has at that moment
search_deals_by_cnj(c, cnj) ==
    IF normalize_cnj(cnj) = "" THEN <<>>
    ELSE SortedSeq({d \in DealIds : c[d].StageId # NoStage /\ CnjField(d) = normalize_cnj(cnj)})

\* the CRM after a successful update_deal_stage
update_deal_stage(c, deal_id, stage_id) == [c EXCEPT ![deal_id].StageId = stage_id]

\* the CRM after a successful delete_deal
delete_deal(c, deal_id) == [c EXCEPT ![deal_id].StageId = NoStage]

\* the CRM after a successful create_interaction_record: the deal has one
\* more note, whose id is returned
create_interaction_record(c, deal_id) == [c EXCEPT ![deal_id].notes = @ + 1]

\* the CRM after a successful update_deal_last_interaction_record
update_deal_last_interaction_record(c, deal_id, note_id) ==
    [c EXCEPT ![deal_id].LastInteractionRecordId = note_id]

\* a client call returns its result, returns its failure value, or raises
Outcomes == IF run <= reliable THEN {"ok"} ELSE {"ok", "fail", "raise"}

\* authenticate returns or raises ParceirosAPIError
AuthOutcomes == IF run <= reliable THEN {"ok"} ELSE {"ok", "raise"}

\* get_leads_by_cnj returns leads, returns none, or raises
LookupOutcomes(cnj) ==
    (IF parceiros.fixed
     THEN {IF cnj \in parceiros.leads THEN "leads" ELSE "no leads"}
     ELSE {"leads", "no leads"})
    \cup (IF run <= reliable THEN {} ELSE {"raise"})

\* one call of process_cnj_list, any call may fail, Parceiros may answer anything
SingleRun ==
    /\ run = 1
    /\ reliable = 0
    /\ parceiros = [fixed |-> FALSE, leads |-> {}]

NoCall == <<>>

EmptyReport ==
    [total_processed |-> 0, successfully_moved |-> 0, successfully_deleted |-> 0,
     failed_movements |-> 0, skipped_deletions |-> 0, results |-> <<>>,
     origin_stages_used |-> {}]

NoCur == [deal |-> 0, origin |-> 0, mode |-> "", note |-> 0, err |-> "", check |-> ""]
NoCounts == [deleted |-> 0, skipped |-> 0, n |-> 0]

\* no field normalizer is being called
PureIdle ==
    /\ input = <<>>
    /\ output = <<>>
    /\ applied = ""
    /\ registry = <<>>
    /\ mesa = ""
    /\ title = <<>>

\* process_cnj_list is called directly, not by the command
CliIdle ==
    /\ args = [input_exists |-> TRUE, pipeline |-> "", api_token |-> FALSE]
    /\ main_pc = ""
    /\ exit_code = -1
    /\ exited_at = ""

\* the worker threads that share the client
Threads == 1..MaxWorkers

\* time.time() when the client is constructed: long after time 0
StartTime == 2 * InitialInterval

\* no thread is inside _make_request, no request was sent (line 55)
PaceIdle ==
    /\ now = StartTime
    /\ last_request_time = 0
    /\ thread = [t \in Threads |-> [at |-> "out", wake |-> 0, n |-> 0]]
    /\ sent = <<>>

\* no method of the client has been called
OpIdle ==
    /\ method = ""
    /\ result = ""

\* transform has not been called
RowIdle ==
    /\ rows = <<>>
    /\ with_client = FALSE
    /\ transform_pc = ""
    /\ row_idx = 0
    /\ offices = <<>>
    /\ lookups = <<>>

\* the module of the normalizers as imported: nothing cached, nothing loaded
CacheIdle ==
    /\ cache = <<>>
    /\ files = <<>>
    /\ loads = <<>>

\* remove_duplicate_deals has not been called
DupIdle ==
    /\ pipeline_deals = <<>>
    /\ simulate = FALSE
    /\ dup_pc = ""
    /\ fetched = <<>>
    /\ to_delete = <<>>
    /\ attempts = {}
    /\ total_deleted = 0

LateIdle == RowIdle /\ CacheIdle /\ DupIdle

AuxIdle == PureIdle /\ CliIdle /\ PaceIdle /\ OpIdle /\ LateIdle

\* a PloomesClient as constructed: no request made yet
ClientIdle ==
    /\ min_request_interval = InitialInterval
    /\ attempt = 0
    /\ req = "idle"
    /\ response = ""
    /\ waited = 0
    /\ requests = 0

\* ------------------------------------------------------------------------
\* Initial states
\* ------------------------------------------------------------------------
\* a PloomesSync and a call of process_cnj_list: the list is drawn from
\* inputs, the case numbers in described may have an error description
EngineInitFor(inputs, described) ==
    /\ cnj_list \in UNION {[1..n -> inputs] : n \in 0..MaxList}
    /\ cnj_errors \in {e \in [Spellings -> ErrDescs] :
                           \A c \in Spellings \ described : e[c] = ""}
    /\ dry_run \in BOOLEAN
    /\ has_parceiros \in BOOLEAN
    /\ \E st \in {f \in [DealIds -> {deletion_stage_id, target_stage_id}] :
                        \A d \in DealIds : CnjField(d) = "" => f[d] = deletion_stage_id},
          ost \in {MappedStage, OtherStage},
          note \in {0, 1} :
          /\ (ost = OtherStage => note = 0)
          /\ crm = [d \in DealIds \cup OriginIds |->
                       IF d \in DealIds
                       THEN [StageId |-> st[d], LastInteractionRecordId |-> 0, notes |-> 0]
                       ELSE IF d = OriginA
                       THEN [StageId |-> ost, LastInteractionRecordId |-> note, notes |-> note]
                       ELSE [StageId |-> OtherStage, LastInteractionRecordId |-> 0, notes |-> 0]]
    /\ crm0 = crm
    /\ token = FALSE
    /\ pc = "Start"
    /\ step = ""
    /\ preserved = {}
    /\ deletion_stage_empty = FALSE
    /\ tasks = <<>>
    /\ results = <<>>
    /\ report = EmptyReport
    /\ queue = <<>>
    /\ cur = NoCur
    /\ counts = NoCounts
    /\ target_delete_stats = [deleted |-> 0, skipped |-> 0]
    /\ lastCall = NoCall
    /\ raised = FALSE

\* the spreadsheet gives an error description for the first case number at most
EngineInit(inputs) == EngineInitFor(inputs, {"A"})

InitWith(inputs) == EngineInit(inputs) /\ ClientIdle /\ AuxIdle

\* the spreadsheet may give an error description for every case number
DescribedInit == EngineInitFor(CNJ, CNJ) /\ ClientIdle /\ AuxIdle /\ SingleRun

\* the input list holds canonical case numbers
Init == InitWith(CNJ) /\ SingleRun

\* the input list may hold a case number as raw digits (load_cnjs_from_excel
\* passes the cell on as it is, stripped)
SpellingInit == InitWith({"A", "a", "B"}) /\ SingleRun

\* process_cnj_list is called again with the same input: in the first run no
\* client call fails, and Parceiros holds the same leads throughout
RerunInit ==
    /\ InitWith(CNJ)
    /\ run = 1
    /\ reliable = 1
    /\ parceiros \in [fixed : {TRUE}, leads : SUBSET CNJ]

\* ------------------------------------------------------------------------
\* process_cnj_list, lines 95-120: preserve set and the emptiness check of
\* the deletion stage; the tasks of MatchPhase are submitted when not empty
\* ------------------------------------------------------------------------
NewTask(cnj) ==
    [st |-> "queued", todo |-> <<>>, moved_any |-> FALSE,
     res |-> [cnj |-> cnj, moved_successfully |-> FALSE, error_message |-> ""]]

\* faulty variant: the result of the first search is ignored and the stage is
\* never taken to be empty
NeverEmpty(out, deletion_deals) == FALSE

\* deletion_stage_empty as computed from the first search_deals_by_stage
DeletionStageEmpty(out, deletion_deals) ==
    IF out = "raise" THEN TRUE ELSE deletion_deals = <<>>

\* process_cnj_list has been called: directly, or by main of delete_deals
Called == main_pc \in {"", "process_cnj_list"}

Start ==
    /\ pc = "Start"
    /\ Called
    /\ \E out \in Outcomes :
         LET deletion_deals == IF out = "ok"
                               THEN search_deals_by_stage(crm, deletion_stage_id)
                               ELSE <<>>
             empty == DeletionStageEmpty(out, deletion_deals)
         IN /\ deletion_stage_empty' = empty
            /\ raised' = (out = "raise")
            /\ tasks' = IF empty THEN <<>>
                        ELSE [i \in DOMAIN cnj_list |-> NewTask(cnj_list[i])]
    /\ report' = [report EXCEPT !.total_processed = Len(cnj_list)]
    /\ preserved' = PreservedCnjs(cnj_list, cnj_errors)
    /\ lastCall' = <<"search_deals_by_stage", "Start", deletion_stage_id>>
    /\ pc' = "Match"
    /\ step' = "run"
    /\ UNCHANGED <<cfgVars, crm, token, results, queue, cur, counts, target_delete_stats>>

\* ------------------------------------------------------------------------
\* MatchPhase: _process_single_cnj run by the workers of the executor
\* ------------------------------------------------------------------------
Running == {i \in DOMAIN tasks : tasks[i].st = "moving"}

\* the executor hands the queued tasks to its workers in submission order
CanStart(i) ==
    /\ tasks[i].st = "queued"
    /\ \A j \in DOMAIN tasks : j < i => tasks[j].st # "queued"
    /\ Cardinality(Running) < MaxWorkers

Finished(t, moved, err) ==
    [t EXCEPT !.st = "done", !.todo = <<>>, !.moved_any = moved,
              !.res = [cnj |-> t.res.cnj, moved_successfully |-> moved,
                       error_message |-> err]]

\* faulty variant: the result of a completed future is not collected
NotCollected(i) == results

\* lines 134-141: as_completed hands each future to the calling thread when it
\* completes, and its result is appended to the local list
Collected(i) ==
    IF tasks'[i].st = "done" THEN Append(results, tasks'[i].res) ELSE results

\* faulty variant: the worker does not test the dry-run flag
MatchDryRunIgnored == FALSE

\* the dry-run test of line 323
MatchDryRun == dry_run

\* lines 284-303: search_deals_by_cnj and the filter on the deletion stage
\* faulty variant: the deals found are not filtered by stage
InAnyStage(c, d) == TRUE

\* the filter of lines 296-298
InDeletionStage(c, d) == c[d].StageId = deletion_stage_id

WorkerSearch(i) ==
    /\ i \in DOMAIN tasks
    /\ CanStart(i)
    /\ \E out \in Outcomes :
         LET cnj == tasks[i].res.cnj
             deals == IF out = "ok" THEN search_deals_by_cnj(crm, cnj) ELSE <<>>
             deletion_stage_deals ==
                 SelectSeq(deals, LAMBDA d : InDeletionStage(crm, d))
         IN /\ raised' = (out = "raise")
            /\ tasks' = [tasks EXCEPT ![i] =
                IF out = "raise" THEN Finished(@, FALSE, "Erro inesperado")
                ELSE IF deals = <<>> THEN Finished(@, FALSE, "Negocio nao encontrado")
                ELSE IF deletion_stage_deals = <<>>
                     THEN Finished(@, FALSE, "Nenhum negocio no estagio de delecao")
                ELSE [@ EXCEPT !.st = "moving", !.todo = deletion_stage_deals]]
    /\ lastCall' = <<"search_deals_by_cnj", "Match", i>>
    /\ results' = Collected(i)
    /\ UNCHANGED <<cfgVars, crm, token, pc, step, preserved, deletion_stage_empty,
                   report, queue, cur, counts, target_delete_stats>>

\* lines 305-346: one iteration of the loop over the deletion-stage deals
WorkerMove(i) ==
    /\ i \in DOMAIN tasks
    /\ tasks[i].st = "moving"
    /\ LET t == tasks[i]
           deal_id == Head(t.todo)
           rest == Tail(t.todo)
           After(moved) ==
               IF rest = <<>> THEN Finished(t, moved, "")
               ELSE [t EXCEPT !.todo = rest, !.moved_any = moved]
       IN IF deletion_stage_id = target_stage_id
          THEN /\ tasks' = [tasks EXCEPT ![i] = After(t.moved_any)]
               /\ lastCall' = NoCall
               /\ raised' = FALSE
               /\ crm' = crm
          ELSE IF MatchDryRun
          THEN /\ tasks' = [tasks EXCEPT ![i] = After(TRUE)]
               /\ lastCall' = NoCall
               /\ raised' = FALSE
               /\ crm' = crm
          ELSE /\ lastCall' = <<"update_deal_stage", "Match", deal_id>>
               /\ \E out \in Outcomes :
                    /\ raised' = (out = "raise")
                    /\ \/ /\ out = "ok"
                          /\ crm' = update_deal_stage(crm, deal_id, target_stage_id)
                          /\ tasks' = [tasks EXCEPT ![i] = After(TRUE)]
                       \/ /\ out = "fail"
                          /\ crm' = crm
                          /\ tasks' = [tasks EXCEPT ![i] = After(t.moved_any)]
                       \/ /\ out = "raise"
                          /\ crm' = crm
                          /\ tasks' = [tasks EXCEPT ![i] =
                                          Finished(t, FALSE, "Erro inesperado")]
    /\ results' = Collected(i)
    /\ UNCHANGED <<cfgVars, token, pc, step, preserved, deletion_stage_empty,
                   report, queue, cur, counts, target_delete_stats>>

\* faulty variant: the calling thread goes on without waiting for the futures
ExecutorNotJoined == TRUE

\* the as_completed loop and the executor's with-block end only when every
\* submitted future has completed
ExecutorJoined == \A i \in DOMAIN tasks : tasks[i].st = "done"

RECURSIVE CountMoved(_)
CountMoved(rs) ==
    IF rs = <<>> THEN 0
    ELSE (IF Head(rs).moved_successfully THEN 1 ELSE 0) + CountMoved(Tail(rs))

\* lines 143-154: aggregation of the results into the report
Aggregate ==
    /\ pc = "Match"
    /\ ExecutorJoined
    /\ report' = [report EXCEPT
                     !.successfully_moved = @ + CountMoved(results),
                     !.failed_movements = @ + (Len(results) - CountMoved(results)),
                     !.results = @ \o results]
    /\ tasks' = SelectSeq(tasks, LAMBDA t : t.st # "done")  \* completed futures are dropped
    /\ results' = <<>>                                      \* the local list is not used again
    /\ pc' = "Origin"
    /\ step' = "search"
    /\ lastCall' = NoCall
    /\ raised' = FALSE
    /\ UNCHANGED <<cfgVars, crm, token, preserved, deletion_stage_empty,
                   queue, cur, counts, target_delete_stats>>

\* ------------------------------------------------------------------------
\* OriginPropagationPhase: lines 156-192 and _move_origin_deal
\* ------------------------------------------------------------------------
\* the phase that follows OriginPropagationPhase
ToPurge ==
    /\ pc' = "Purge"
    /\ step' = "search"
    /\ queue' = <<>>
    /\ cur' = NoCur

\* faulty variant: the exception is not handled and leaves process_cnj_list
ExceptionPropagates ==
    /\ pc' = "Raised"
    /\ step' = ""
    /\ queue' = <<>>
    /\ cur' = NoCur

\* lines 189-192: the handler of the phase logs the exception; the run goes on
OriginExcept == ToPurge

\* the loop goes on with the deals still to be handled, or the phase ends
OriginContinue(rest) ==
    IF rest = <<>> THEN ToPurge
    ELSE /\ pc' = "Origin"
         /\ step' = "loop"
         /\ queue' = rest
         /\ cur' = NoCur

\* line 158: search_deals_by_stage(target_stage_id)
OriginSearch ==
    /\ pc = "Origin"
    /\ step = "search"
    /\ lastCall' = <<"search_deals_by_stage", "Origin", target_stage_id>>
    /\ \E out \in Outcomes :
         /\ raised' = (out = "raise")
         /\ IF out = "raise" THEN OriginExcept
            ELSE OriginContinue(IF out = "ok"
                                THEN search_deals_by_stage(crm, target_stage_id)
                                ELSE <<>>)
    /\ UNCHANGED <<cfgVars, crm, token, preserved, deletion_stage_empty, tasks,
                   results, report, counts, target_delete_stats>>

\* error_description of a target-stage deal, lines 165-168
ErrorDescription(d) ==
    IF extract_cnj_from_deal(d) = "" THEN "" ELSE cnj_errors[extract_cnj_from_deal(d)]

\* the dry-run tests of lines 475, 521 and 552
OriginDryRun == dry_run

\* faulty variant: the origin deal is taken to have no interaction record
NeverHasInteractionRecord(origin_deal) == FALSE

\* lines 478-482: if last_interaction_record_id
HasInteractionRecord(origin_deal) == origin_deal.LastInteractionRecordId # 0

\* faulty variant: the stage is updated without writing the note first
MoveWithoutNote(notes) == "update"

\* lines 519-523 and 552-558: the note calls come before update_deal_stage
MoveFirstStep(notes) == IF notes THEN "note" ELSE "update"

\* lines 163-186 and _move_origin_deal up to its first client call and the
\* decisions taken on the origin deal it returns (lines 400-475, 519-521)
OriginBegin ==
    /\ pc = "Origin"
    /\ step = "loop"
    /\ LET deal == Head(queue)
           rest == Tail(queue)
           error_description == ErrorDescription(deal)
           origin_deal_id == OriginDealId(deal)
       IN IF JaExiste(error_description) \/ origin_deal_id = 0
          THEN /\ OriginContinue(rest)
               /\ lastCall' = NoCall
               /\ raised' = FALSE
          ELSE /\ lastCall' = <<"get_deal_by_id", "Origin", origin_deal_id>>
               /\ \E out \in Outcomes :
                    LET origin_deal == crm[origin_deal_id]
                        origin_stage_id == origin_config(PipelineId(origin_deal_id))
                        notes == error_description # "" /\ ~OriginDryRun
                    IN /\ raised' = (out = "raise")
                       /\ \/ /\ out = "raise"
                             /\ OriginExcept
                          \/ /\ out = "fail"
                             /\ OriginContinue(rest)
                          \/ /\ out = "ok"
                             /\ IF origin_stage_id = 0
                                THEN OriginContinue(rest)
                                ELSE /\ pc' = "Origin"
                                     /\ queue' = rest
                                     /\ cur' = [NoCur EXCEPT
                                                  !.deal = deal,
                                                  !.origin = origin_deal_id,
                                                  !.mode = IF origin_deal.StageId = origin_stage_id
                                                           THEN "same" ELSE "move",
                                                  !.err = error_description]
                                     /\ step' =
                                          IF origin_deal.StageId = origin_stage_id
                                          THEN IF notes /\ ~HasInteractionRecord(origin_deal)
                                               THEN "note" ELSE "return"
                                          ELSE MoveFirstStep(notes)
    /\ UNCHANGED <<cfgVars, crm, token, preserved, deletion_stage_empty, tasks,
                   results, report, counts, target_delete_stats>>

\* where _move_origin_deal goes on after the note calls
AfterNote == IF cur.mode = "same" THEN "return" ELSE "update"

\* lines 489-491 and 523-525: create_interaction_record(origin_deal_id, error_description)
OriginCreateNote ==
    /\ pc = "Origin"
    /\ step = "note"
    /\ lastCall' = <<"create_interaction_record", "Origin", cur.origin>>
    /\ \E out \in Outcomes :
         /\ raised' = (out = "raise")
         /\ \/ /\ out = "ok"
               /\ crm' = create_interaction_record(crm, cur.origin)
               /\ cur' = [cur EXCEPT !.note = crm'[cur.origin].notes]
               /\ step' = "setlast"
            \/ /\ out \in {"fail", "raise"}
               /\ crm' = crm
               /\ cur' = cur
               /\ step' = AfterNote
    /\ UNCHANGED <<cfgVars, token, pc, preserved, deletion_stage_empty, tasks,
                   results, report, queue, counts, target_delete_stats>>

\* lines 499-508 and 532-541: update_deal_last_interaction_record
OriginSetLastNote ==
    /\ pc = "Origin"
    /\ step = "setlast"
    /\ lastCall' = <<"update_deal_last_interaction_record", "Origin", cur.origin>>
    /\ \E out \in Outcomes :
         /\ raised' = (out = "raise")
         /\ crm' = IF out = "ok"
                   THEN update_deal_last_interaction_record(crm, cur.origin, cur.note)
                   ELSE crm
    /\ step' = AfterNote
    /\ UNCHANGED <<cfgVars, token, pc, preserved, deletion_stage_empty, tasks,
                   results, report, queue, cur, counts, target_delete_stats>>

\* line 517, and lines 552-557 in a dry run: the mapped stage is returned
\* and recorded in report.origin_stages_used (line 188)
OriginReturn ==
    /\ pc = "Origin"
    /\ step \in {"return"} \cup (IF OriginDryRun THEN {"update"} ELSE {})
    /\ report' = [report EXCEPT !.origin_stages_used =
                      @ \cup {origin_config(PipelineId(cur.origin))}]
    /\ OriginContinue(queue)
    /\ lastCall' = NoCall
    /\ raised' = FALSE
    /\ UNCHANGED <<cfgVars, crm, token, preserved, deletion_stage_empty, tasks,
                   results, counts, target_delete_stats>>

\* lines 558-565: update_deal_stage(origin_deal_id, origin_stage_id)
OriginUpdateStage ==
    /\ pc = "Origin"
    /\ step = "update"
    /\ ~OriginDryRun
    /\ lastCall' = <<"update_deal_stage", "Origin", cur.origin>>
    /\ LET origin_stage_id == origin_config(PipelineId(cur.origin))
       IN \E out \in Outcomes :
            /\ raised' = (out = "raise")
            /\ \/ /\ out = "ok"
                  /\ crm' = update_deal_stage(crm, cur.origin, origin_stage_id)
                  /\ report' = [report EXCEPT !.origin_stages_used = @ \cup {origin_stage_id}]
                  /\ OriginContinue(queue)
               \/ /\ out = "fail"
                  /\ UNCHANGED <<crm, report>>
                  /\ OriginContinue(queue)
               \/ /\ out = "raise"
                  /\ UNCHANGED <<crm, report>>
                  /\ OriginExcept
    /\ UNCHANGED <<cfgVars, token, preserved, deletion_stage_empty, tasks,
                   results, counts, target_delete_stats>>

\* ------------------------------------------------------------------------
\* PurgeConfirmedPhase: _delete_all_deals_in_target_stage (lines 194-203)
\* ------------------------------------------------------------------------
\* the function returns its counters and StaleCleanupPhase follows
PurgeReturn(deleted, skipped) ==
    /\ target_delete_stats' = [deleted |-> deleted, skipped |-> skipped]
    /\ pc' = "Stale"
    /\ step' = "search"
    /\ queue' = <<>>
    /\ counts' = NoCounts

\* lines 712-714: the handler inside the function counts what was found as skipped
PurgeExcept(deleted, skipped, found) == PurgeReturn(deleted, skipped + found)

PurgeContinue(rest, deleted, skipped) ==
    IF rest = <<>> THEN PurgeReturn(deleted, skipped)
    ELSE /\ pc' = "Purge"
         /\ step' = "loop"
         /\ queue' = rest
         /\ counts' = [counts EXCEPT !.deleted = deleted, !.skipped = skipped]
         /\ UNCHANGED target_delete_stats

\* lines 684-694: search_deals_by_stage(target_stage_id)
PurgeSearch ==
    /\ pc = "Purge"
    /\ step = "search"
    /\ lastCall' = <<"search_deals_by_stage", "Purge", target_stage_id>>
    /\ \E out \in Outcomes :
         LET deals == IF out = "ok" THEN search_deals_by_stage(crm, target_stage_id)
                      ELSE <<>>
         IN /\ raised' = (out = "raise")
            /\ IF out = "raise" THEN PurgeExcept(0, 0, 0)
               ELSE IF deals = <<>> THEN PurgeReturn(0, 0)
               ELSE /\ pc' = "Purge"
                    /\ step' = "loop"
                    /\ queue' = deals
                    /\ counts' = [deleted |-> 0, skipped |-> 0, n |-> Len(deals)]
                    /\ UNCHANGED target_delete_stats
    /\ UNCHANGED <<cfgVars, crm, token, preserved, deletion_stage_empty, tasks,
                   results, report, cur>>

\* the dry-run test of line 699
PurgeDryRun == dry_run

\* lines 696-714: one iteration of the deletion loop
PurgeDelete ==
    /\ pc = "Purge"
    /\ step = "loop"
    /\ LET deal_id == Head(queue)
           rest == Tail(queue)
       IN IF PurgeDryRun
          THEN /\ PurgeContinue(rest, counts.deleted + 1, counts.skipped)
               /\ lastCall' = NoCall
               /\ raised' = FALSE
               /\ crm' = crm
          ELSE /\ lastCall' = <<"delete_deal", "Purge", deal_id>>
               /\ \E out \in Outcomes :
                    /\ raised' = (out = "raise")
                    /\ \/ /\ out = "ok"
                          /\ crm' = delete_deal(crm, deal_id)
                          /\ PurgeContinue(rest, counts.deleted + 1, counts.skipped)
                       \/ /\ out = "fail"
                          /\ crm' = crm
                          /\ PurgeContinue(rest, counts.deleted, counts.skipped + 1)
                       \/ /\ out = "raise"
                          /\ crm' = crm
                          /\ PurgeExcept(counts.deleted, counts.skipped, counts.n)
    /\ UNCHANGED <<cfgVars, token, preserved, deletion_stage_empty, tasks,
                   results, report, cur>>

\* ------------------------------------------------------------------------
\* StaleCleanupPhase: lines 205-272 and _deal_exists_in_parceiros
\* ------------------------------------------------------------------------
\* faulty variant: what the purge of the target stage counted goes into the
\* report as well
StaleFinishCountingPurge(deleted, skipped) ==
    /\ report' = [report EXCEPT
                     !.successfully_deleted = deleted + target_delete_stats.deleted,
                     !.skipped_deletions = skipped + target_delete_stats.skipped]
    /\ pc' = "Done"
    /\ step' = ""
    /\ queue' = <<>>
    /\ cur' = NoCur
    /\ counts' = [counts EXCEPT !.deleted = deleted, !.skipped = skipped]

\* lines 259-260 and 268-272: the counters go into the report, which is returned
StaleFinish(deleted, skipped) ==
    /\ report' = [report EXCEPT !.successfully_deleted = deleted,
                                !.skipped_deletions = skipped]
    /\ pc' = "Done"
    /\ step' = ""
    /\ queue' = <<>>
    /\ cur' = NoCur
    /\ counts' = [counts EXCEPT !.deleted = deleted, !.skipped = skipped]

\* faulty variant: the counters reached before the exception are lost
StaleExceptLosesCounts(deleted, skipped) == StaleFinish(0, 0)

\* lines 256-260: the handler of the phase logs the exception; the counters
\* reached so far go into the report
StaleExcept(deleted, skipped) == StaleFinish(deleted, skipped)

StaleContinue(rest, deleted, skipped) ==
    IF rest = <<>> THEN StaleFinish(deleted, skipped)
    ELSE /\ pc' = "Stale"
         /\ step' = "loop"
         /\ queue' = rest
         /\ cur' = NoCur
         /\ counts' = [counts EXCEPT !.deleted = deleted, !.skipped = skipped]
         /\ UNCHANGED report

\* lines 261-266: the deletion stage was found empty, nothing is cleaned up
StaleSkip ==
    /\ pc = "Stale"
    /\ step = "search"
    /\ deletion_stage_empty
    /\ StaleFinish(0, 0)
    /\ lastCall' = NoCall
    /\ raised' = FALSE
    /\ UNCHANGED <<cfgVars, crm, token, preserved, deletion_stage_empty, tasks,
                   results, target_delete_stats>>

\* lines 210-217: search_deals_by_stage(deletion_stage_id)
StaleSearch ==
    /\ pc = "Stale"
    /\ step = "search"
    /\ ~deletion_stage_empty
    /\ lastCall' = <<"search_deals_by_stage", "Stale", deletion_stage_id>>
    /\ \E out \in Outcomes :
         /\ raised' = (out = "raise")
         /\ IF out = "raise" THEN StaleExcept(0, 0)
            ELSE StaleContinue(IF out = "ok"
                               THEN search_deals_by_stage(crm, deletion_stage_id)
                               ELSE <<>>, 0, 0)
    /\ UNCHANGED <<cfgVars, crm, token, preserved, deletion_stage_empty, tasks,
                   results, target_delete_stats>>

\* faulty variant: the preserve set is not consulted
NeverPreserved(cnj_label) == FALSE

\* line 229: the deal's case number is in the preserve set
IsPreserved(cnj_label) == cnj_label \in preserved

\* faulty variant: authenticate is called for every deal
AlwaysAuthenticates == TRUE

\* lines 852-855: the Parceiros client holds no token
NoTokenHeld == ~token

\* lines 218-236 and 846-855: the preserve check, then the first step of the
\* existence check
StaleBegin ==
    /\ pc = "Stale"
    /\ step = "loop"
    /\ LET deal_id == Head(queue)
           rest == Tail(queue)
       IN IF IsPreserved(CnjLabel(deal_id))
          THEN StaleContinue(rest, counts.deleted, counts.skipped)
          ELSE /\ pc' = "Stale"
               /\ queue' = rest
               /\ cur' = [NoCur EXCEPT !.deal = deal_id,
                                       !.check = IF has_parceiros THEN "" ELSE "no client"]
               /\ step' = IF ~has_parceiros THEN "delete"
                          ELSE IF NoTokenHeld THEN "auth" ELSE "lookup"
               /\ UNCHANGED <<report, counts>>
    /\ lastCall' = NoCall
    /\ raised' = FALSE
    /\ UNCHANGED <<cfgVars, crm, token, preserved, deletion_stage_empty, tasks,
                   results, target_delete_stats>>

\* what _deal_exists_in_parceiros returns when authenticate raises (line 860)
ExistsWhenAuthFails == TRUE

\* what _deal_exists_in_parceiros returns when the lookup raises (line 882)
ExistsWhenLookupFails == TRUE

\* line 864: exists = len(leads) > 0
ExistsWhenAnswered(out) == out = "leads"

\* the existence check returned `exists` for cur.deal: lines 236-241
StaleAfterCheck(exists, check) ==
    IF exists
    THEN /\ pc' = "Stale"
         /\ step' = "delete"
         /\ cur' = [cur EXCEPT !.check = check]
         /\ UNCHANGED <<queue, counts, report>>
    ELSE StaleContinue(queue, counts.deleted, counts.skipped + 1)

\* lines 852-860: parceiros_client.authenticate()
StaleAuth ==
    /\ pc = "Stale"
    /\ step = "auth"
    /\ lastCall' = <<"authenticate", "Stale", cur.deal>>
    /\ \E out \in AuthOutcomes :
         /\ raised' = (out = "raise")
         /\ \/ /\ out = "ok"
               /\ token' = TRUE
               /\ pc' = "Stale"
               /\ step' = "lookup"
               /\ UNCHANGED <<queue, cur, counts, report>>
            \/ /\ out = "raise"
               /\ token' = token
               /\ StaleAfterCheck(ExistsWhenAuthFails, "auth failed")
    /\ UNCHANGED <<cfgVars, crm, preserved, deletion_stage_empty, tasks,
                   results, target_delete_stats>>

\* lines 862-882: parceiros_client.get_leads_by_cnj(cnj)
StaleLookup ==
    /\ pc = "Stale"
    /\ step = "lookup"
    /\ lastCall' = <<"get_leads_by_cnj", "Stale", cur.deal>>
    /\ \E out \in LookupOutcomes(CnjLabel(cur.deal)) :
         /\ raised' = (out = "raise")
         /\ StaleAfterCheck(IF out = "raise" THEN ExistsWhenLookupFails
                            ELSE ExistsWhenAnswered(out), out)
    /\ UNCHANGED <<cfgVars, crm, token, preserved, deletion_stage_empty, tasks,
                   results, target_delete_stats>>

\* faulty variant: the dry-run flag is not tested before the call
DryRunIgnored == FALSE

\* the dry-run test of line 243
StaleDryRun == dry_run

\* lines 243-257: the deletion itself
StaleDelete ==
    /\ pc = "Stale"
    /\ step = "delete"
    /\ IF StaleDryRun
       THEN /\ StaleContinue(queue, counts.deleted + 1, counts.skipped)
            /\ lastCall' = NoCall
            /\ raised' = FALSE
            /\ crm' = crm
       ELSE /\ lastCall' = <<"delete_deal", "Stale", cur.deal>>
            /\ \E out \in Outcomes :
                 /\ raised' = (out = "raise")
                 /\ \/ /\ out = "ok"
                       /\ crm' = delete_deal(crm, cur.deal)
                       /\ StaleContinue(queue, counts.deleted + 1, counts.skipped)
                    \/ /\ out = "fail"
                       /\ crm' = crm
                       /\ StaleContinue(queue, counts.deleted, counts.skipped + 1)
                    \/ /\ out = "raise"
                       /\ crm' = crm
                       /\ StaleExcept(counts.deleted, counts.skipped)
    /\ UNCHANGED <<cfgVars, token, preserved, deletion_stage_empty, tasks,
                   results, target_delete_stats>>

\* ------------------------------------------------------------------------
\* Specification
\* ------------------------------------------------------------------------
Next ==
    \/ Start
    \/ \E i \in 1..MaxList : WorkerSearch(i)
    \/ \E i \in 1..MaxList : WorkerMove(i)
    \/ Aggregate
    \/ OriginSearch
    \/ OriginBegin
    \/ OriginCreateNote
    \/ OriginSetLastNote
    \/ OriginReturn
    \/ OriginUpdateStage
    \/ PurgeSearch
    \/ PurgeDelete
    \/ StaleSkip
    \/ StaleSearch
    \/ StaleBegin
    \/ StaleAuth
    \/ StaleLookup
    \/ StaleDelete

Spec == Init /\ [][Next]_vars

\* runs in which every case number may have an error description
DescribedSpec == DescribedInit /\ [][Next]_vars

\* every thread of the run keeps being scheduled until it has nothing to do
FairSpec == Spec /\ WF_vars(Next)

\* process_cnj_list is called again on the same PloomesSync with the same list
Rerun ==
    /\ pc = "Done"
    /\ run < MaxRuns
    /\ run' = run + 1
    /\ crm0' = crm
    /\ pc' = "Start"
    /\ step' = ""
    /\ preserved' = {}
    /\ deletion_stage_empty' = FALSE
    /\ tasks' = <<>>
    /\ results' = <<>>
    /\ report' = EmptyReport
    /\ queue' = <<>>
    /\ cur' = NoCur
    /\ counts' = NoCounts
    /\ target_delete_stats' = [deleted |-> 0, skipped |-> 0]
    /\ lastCall' = NoCall
    /\ raised' = FALSE
    /\ UNCHANGED <<cnj_list, cnj_errors, dry_run, has_parceiros, crm, token,
                   reliable, parceiros, clientVars, auxVars>>

RerunNext == Next \/ Rerun

RerunSpec == RerunInit /\ [][RerunNext]_vars

\* runs whose input list was read from a spreadsheet with raw spellings
SpellingSpec == SpellingInit /\ [][Next]_vars

\* ------------------------------------------------------------------------
\* PloomesClient._make_request (src/src/ploomes_client.py, lines 64-130): one
\* step per attempt of the retry loop
\* ------------------------------------------------------------------------
\* what an attempt can receive: a response, HTTP 429, another HTTP error, or
\* a transport error (requests.exceptions.RequestException)
Responses == {"ok", "429", "http_error", "transport_error"}

\* the state of the engine while the client is exercised on its own
EngineIdle ==
    /\ cnj_list = <<>>
    /\ cnj_errors = [c \in Spellings |-> ""]
    /\ dry_run = FALSE
    /\ has_parceiros = FALSE
    /\ crm = [d \in DealIds \cup OriginIds |->
                 [StageId |-> OtherStage, LastInteractionRecordId |-> 0, notes |-> 0]]
    /\ crm0 = crm
    /\ token = FALSE
    /\ pc = "Start"
    /\ step = ""
    /\ preserved = {}
    /\ deletion_stage_empty = FALSE
    /\ tasks = <<>>
    /\ results = <<>>
    /\ report = EmptyReport
    /\ queue = <<>>
    /\ cur = NoCur
    /\ counts = NoCounts
    /\ target_delete_stats = [deleted |-> 0, skipped |-> 0]
    /\ lastCall = NoCall
    /\ raised = FALSE

ClientInit == EngineIdle /\ SingleRun /\ ClientIdle /\ AuxIdle

\* faulty variant: a 429 is retried however many attempts were made
Retry429Unbounded(resp, att) == resp = "429"

\* faulty variant: every failed attempt is retried
RetryAnyFailure(resp, att) == resp # "ok" /\ att < max_retries - 1

\* line 98: status_code == 429 and attempt < max_retries - 1
ShouldRetry(resp, att) == resp = "429" /\ att < max_retries - 1

\* faulty variant: the interval grows without a cap
UncappedInterval(interval) == (interval * 3) \div 2

\* lines 106-108: min(self.min_request_interval * 1.5, 2.0)
NextInterval(interval) ==
    IF (interval * 3) \div 2 < IntervalCap THEN (interval * 3) \div 2 ELSE IntervalCap

\* line 99: wait_time = backoff_factor * (2**attempt)
wait_time(att) == backoff_factor * 2^att

\* a caller enters _make_request: lines 81-87
MakeRequest ==
    /\ req \in {"idle", "returned", "raised"}
    /\ requests < MaxRequests
    /\ req' = "attempting"
    /\ attempt' = 0
    /\ response' = ""
    /\ waited' = 0
    /\ requests' = requests + 1
    /\ UNCHANGED <<min_request_interval, engineVars, envVars, auxVars>>

\* lines 88-92: the attempt succeeds and the response is returned
AttemptReturns ==
    /\ req = "attempting"
    /\ attempt < max_retries
    /\ response' = "ok"
    /\ req' = "returned"
    /\ waited' = 0
    /\ UNCHANGED <<min_request_interval, attempt, requests, engineVars, envVars, auxVars>>

\* lines 97-109: backoff sleep, longer pacing interval, next attempt
AttemptRetried ==
    /\ req = "attempting"
    /\ attempt < max_retries
    /\ \E resp \in Responses \ {"ok"} :
         /\ ShouldRetry(resp, attempt)
         /\ response' = resp
    /\ waited' = wait_time(attempt)
    /\ min_request_interval' = NextInterval(min_request_interval)
    /\ attempt' = attempt + 1
    /\ req' = "attempting"
    /\ UNCHANGED <<requests, engineVars, envVars, auxVars>>

\* lines 111-128: PloomesAPIError is raised
AttemptRaises ==
    /\ req = "attempting"
    /\ attempt < max_retries
    /\ \E resp \in Responses \ {"ok"} :
         /\ ~ShouldRetry(resp, attempt)
         /\ response' = resp
    /\ req' = "raised"
    /\ waited' = 0
    /\ UNCHANGED <<min_request_interval, attempt, requests, engineVars, envVars, auxVars>>

\* (line 130, the raise after the loop, is never reached: the third attempt
\* returns or raises)
ClientNext ==
    \/ MakeRequest
    \/ AttemptReturns
    \/ AttemptRetried
    \/ AttemptRaises

ClientSpec == ClientInit /\ [][ClientNext]_vars

\* ------------------------------------------------------------------------
\* The field normalizers (src/src/data_processing/normalizers.py): a string
\* is the sequence of its characters
\* ------------------------------------------------------------------------
DigitChars == <<"0", "1", "2", "3", "4", "5", "6", "7", "8", "9">>

\* the characters that \D does not match
Digit == {DigitChars[i] : i \in DOMAIN DigitChars}

\* the value None
None == <<"None">>

\* faulty variant: the dash is kept with the digits
DigitsAndDashes(s) == SelectSeq(s, LAMBDA ch : ch \in Digit \cup {"-"})

\* re.sub(r"\D", "", s)
DigitsOf(s) == SelectSeq(s, LAMBDA ch : ch \in Digit)

\* faulty variant: a string with more than 20 digits is cut to its first 20
normalize_cnj_truncating(cnj_str) ==
    LET digits == DigitsOf(cnj_str)
    IN IF Len(digits) < 20 THEN None
       ELSE SubSeq(digits, 1, 7) \o <<"-">> \o SubSeq(digits, 8, 9) \o <<".">>
            \o SubSeq(digits, 10, 13) \o <<".">> \o SubSeq(digits, 14, 14) \o <<".">>
            \o SubSeq(digits, 15, 16) \o <<".">> \o SubSeq(digits, 17, 20)

\* normalize_cnj on the characters of the string
normalize_cnj_str(cnj_str) ==
    IF cnj_str = None \/ cnj_str = <<>> THEN None
    ELSE LET digits == DigitsOf(cnj_str)
         IN IF Len(digits) # 20 THEN None
            ELSE SubSeq(digits, 1, 7) \o <<"-">> \o SubSeq(digits, 8, 9) \o <<".">>
                 \o SubSeq(digits, 10, 13) \o <<".">> \o SubSeq(digits, 14, 14) \o <<".">>
                 \o SubSeq(digits, 15, 16) \o <<".">> \o SubSeq(digits, 17, Len(digits))

\* the inputs of the normalizers: n digits counting up from `first`
DigitRun(n, first) == [k \in 1..n |-> DigitChars[((first + k - 1) % 10) + 1]]

\* a digit string written with the punctuation of a case number, as far as it
\* reaches
RECURSIVE Punctuated(_, _)
Punctuated(ds, k) ==
    IF k > Len(ds) THEN <<>>
    ELSE <<ds[k]>>
         \o (IF k = Len(ds) THEN <<>>
             ELSE IF k = 7 THEN <<"-">>
             ELSE IF k \in {9, 13, 14, 16} THEN <<".">>
             ELSE <<>>)
         \o Punctuated(ds, k + 1)

\* the spellings a spreadsheet cell may hold: bare digits, punctuated, and
\* punctuated with surrounding text
Written(ds, style) ==
    IF style = "raw" THEN ds
    ELSE IF style = "punctuated" THEN Punctuated(ds, 1)
    ELSE <<" ", "n">> \o Punctuated(ds, 1) \o <<" ">>

Styles == {"raw", "punctuated", "text"}

CnjInputs ==
    {Written(DigitRun(n, first), style) :
        n \in 0..MaxDigits, first \in 0..9, style \in Styles}

\* faulty variant: a leading 55 is dropped whatever the length
normalize_phone_always_strips(phone_str) ==
    LET all == DigitsOf(phone_str)
        digits == IF Len(all) >= 2 /\ SubSeq(all, 1, 2) = <<"5", "5">>
                  THEN SubSeq(all, 3, Len(all)) ELSE all
    IN IF Len(digits) = 11
       THEN <<"(">> \o SubSeq(digits, 1, 2) \o <<")", " ">> \o SubSeq(digits, 3, 7)
            \o <<"-">> \o SubSeq(digits, 8, Len(digits))
       ELSE IF Len(digits) = 10
       THEN <<"(">> \o SubSeq(digits, 1, 2) \o <<")", " ">> \o SubSeq(digits, 3, 6)
            \o <<"-">> \o SubSeq(digits, 7, Len(digits))
       ELSE None

\* normalize_phone on the characters of the string
normalize_phone_str(phone_str) ==
    IF phone_str = None \/ phone_str = <<>> THEN None
    ELSE LET all == DigitsOf(phone_str)
             digits == IF /\ Len(all) >= 2 /\ SubSeq(all, 1, 2) = <<"5", "5">>
                          /\ Len(all) > 11
                       THEN SubSeq(all, 3, Len(all)) ELSE all
         IN IF Len(digits) = 11
            THEN <<"(">> \o SubSeq(digits, 1, 2) \o <<")", " ">> \o SubSeq(digits, 3, 7)
                 \o <<"-">> \o SubSeq(digits, 8, Len(digits))
            ELSE IF Len(digits) = 10
            THEN <<"(">> \o SubSeq(digits, 1, 2) \o <<")", " ">> \o SubSeq(digits, 3, 6)
                 \o <<"-">> \o SubSeq(digits, 7, Len(digits))
            ELSE None

\* a telephone number as a cell may hold it: bare digits, or with brackets
\* round the first two digits and a dash before the last four
PhoneWritten(ds, style) ==
    IF style = "raw" \/ Len(ds) < 6 THEN ds
    ELSE <<"(">> \o SubSeq(ds, 1, 2) \o <<")", " ">> \o SubSeq(ds, 3, Len(ds) - 4)
         \o <<"-">> \o SubSeq(ds, Len(ds) - 3, Len(ds))

\* with or without the country code in front
CountryCodes == {<<>>, <<"5", "5">>, <<"+", "5", "5", " ">>}

PhoneInputs ==
    {cc \o PhoneWritten(DigitRun(n, first), style) :
        cc \in CountryCodes, n \in 0..MaxPhoneDigits, first \in {1, 6},
        style \in {"raw", "punctuated"}}

\* ------------------------------------------------------------------------
\* normalize_escritorio and the office column of PlanilhaTransformer.transform
\* ------------------------------------------------------------------------
Uppers == <<"A", "B", "C", "D", "E", "F", "G", "H", "I", "J", "K", "L", "M",
            "N", "O", "P", "Q", "R", "S", "T", "U", "V", "W", "X", "Y", "Z">>
Lowers == <<"a", "b", "c", "d", "e", "f", "g", "h", "i", "j", "k", "l", "m",
            "n", "o", "p", "q", "r", "s", "t", "u", "v", "w", "x", "y", "z">>

\* str.lower()
lower(s) ==
    [k \in DOMAIN s |->
        IF \E i \in DOMAIN Uppers : Uppers[i] = s[k]
        THEN Lowers[CHOOSE i \in DOMAIN Uppers : Uppers[i] = s[k]]
        ELSE s[k]]

\* str.upper()
upper(s) ==
    [k \in DOMAIN s |->
        IF \E i \in DOMAIN Lowers : Lowers[i] = s[k]
        THEN Uppers[CHOOSE i \in DOMAIN Lowers : Lowers[i] = s[k]]
        ELSE s[k]]

\* str.strip()
RECURSIVE strip(_)
strip(s) ==
    IF s = <<>> THEN s
    ELSE IF Head(s) = " " THEN strip(Tail(s))
    ELSE IF s[Len(s)] = " " THEN strip(SubSeq(s, 1, Len(s) - 1))
    ELSE s

\* one row of the table of longest common subsequences: `prev` is the row of
\* the prefix before `ch`, `acc` the part of the new row filled so far
RECURSIVE FillRow(_, _, _, _)
FillRow(prev, ch, t, acc) ==
    LET j == Len(acc) + 1
        diag == IF j = 1 THEN 0 ELSE prev[j - 1]
        left == IF j = 1 THEN 0 ELSE acc[j - 1]
    IN IF j > Len(t) THEN acc
       ELSE FillRow(prev, ch, t,
                    Append(acc, IF ch = t[j] THEN diag + 1
                                ELSE IF prev[j] >= left THEN prev[j] ELSE left))

RECURSIVE LastRow(_, _, _, _)
LastRow(s, i, t, prev) ==
    IF i > Len(s) THEN prev
    ELSE LastRow(s, i + 1, t, FillRow(prev, s[i], t, <<>>))

\* length of a longest common subsequence
LCS(s, t) ==
    IF s = <<>> \/ t = <<>> THEN 0
    ELSE LastRow(s, 1, t, [j \in 1..Len(t) |-> 0])[Len(t)]

\* Levenshtein.ratio(s, t) = (len(s) + len(t) - d) / (len(s) + len(t)), d the
\* edit distance with substitutions costing 2, as the fraction <<num, den>>
LevenshteinRatio(s, t) ==
    IF Len(s) + Len(t) = 0 THEN <<1, 1>> ELSE <<2 * LCS(s, t), Len(s) + Len(t)>>

\* a > b for fractions with positive denominators
Greater(a, b) == a[1] * b[2] > b[1] * a[2]

\* the loop of _find_best_match over valid_names from position k on
RECURSIVE BestFrom(_, _, _, _, _)
BestFrom(input_normalized, valid_names, k, best_match, best_score) ==
    IF k > Len(valid_names) THEN <<best_match, best_score>>
    ELSE LET similarity ==
                 LevenshteinRatio(input_normalized, lower(strip(valid_names[k])))
         IN IF Greater(similarity, best_score)
            THEN BestFrom(input_normalized, valid_names, k + 1, valid_names[k], similarity)
            ELSE BestFrom(input_normalized, valid_names, k + 1, best_match, best_score)

\* threshold=0.93 of the call in normalize_escritorio, in hundredths
threshold == 93

find_best_match(input_name, valid_names) ==
    IF valid_names = <<>> \/ input_name = <<>> THEN None
    ELSE LET best == BestFrom(lower(strip(input_name)), valid_names, 1, None, <<0, 1>>)
         IN IF 100 * best[2][1] >= threshold * best[2][2] THEN best[1] ELSE None

\* the first registry key equal to the name when case is ignored, or None
RECURSIVE ExactMatch(_, _, _)
ExactMatch(name, valid_names, k) ==
    IF k > Len(valid_names) THEN None
    ELSE IF lower(name) = lower(valid_names[k]) THEN valid_names[k]
    ELSE ExactMatch(name, valid_names, k + 1)

\* normalize_escritorio, given the registry that _load_valid_escritorios(mesa)
\* returns
normalize_escritorio(escritorio_str, valid_escritorios) ==
    IF escritorio_str = None \/ escritorio_str = <<>> THEN <<<<>>, None>>
    ELSE LET stripped == strip(escritorio_str)
             exact == ExactMatch(stripped, valid_escritorios, 1)
             matched_name == find_best_match(stripped, valid_escritorios)
         IN IF stripped = <<>> THEN <<<<>>, None>>
            ELSE IF valid_escritorios = <<>> THEN <<stripped, None>>
            ELSE IF exact # None THEN <<exact, None>>
            ELSE IF matched_name # None THEN <<matched_name, stripped>>
            ELSE <<stripped, None>>

\* PlanilhaTransformer.BBMD_OFFICE
BBMD_OFFICE ==
    <<"B", "E", "R", "T", "O", "L", "I", "N", "I", " ", "E", " ", "B",
      "E", "R", "N", "A", "R", "D", "E", "S", ",", " ", "M", "A", "D",
      "E", "I", "R", "A", " ", "E", " ", "D", "A", "M", "B", "R", "O",
      "S", " ", "A", "D", "V", "O", "G", "A", "D", "O", "S", " ", "A",
      "S", "S", "O", "C", "I", "A", "D", "O", "S">>

\* office names of a registry
SilvaAdv == <<"S", "i", "l", "v", "a", " ", "A", "d", "v">>
MeloCia == <<"M", "e", "l", "o", " ", "e", " ", "C", "i", "a">>

\* the registries of the two business units
Registries(m) ==
    IF m \in {"BBMD", "bbmd"} THEN {<<>>, <<BBMD_OFFICE>>}
    ELSE {<<>>, <<SilvaAdv>>, <<MeloCia, SilvaAdv>>}

\* a name with its k-th character left out
Without(s, k) == SubSeq(s, 1, k - 1) \o SubSeq(s, k + 1, Len(s))

\* what the office cell of a row may hold
OfficeInputs ==
    {<<>>, <<" ", " ">>, <<"X", "y", "z", " ", "L", "a", "w">>}
    \cup UNION {{n, upper(n), lower(n), <<" ">> \o n \o <<" ">>, Without(n, 2),
                 Without(n, Len(n))} : n \in {SilvaAdv, MeloCia}}

\* what _find_escritorio_from_ploomes may return: None, or the stripped title
\* of the deal or of its origin deal
Titles == {None, lower(SilvaAdv), Without(SilvaAdv, 2), <<"X", "y", "z", " ", "L", "a", "w">>}

\* everything but the normalizers is idle
OnlyNormalizers ==
    EngineIdle /\ SingleRun /\ ClientIdle /\ CliIdle /\ PaceIdle /\ OpIdle /\ LateIdle

PureInit ==
    /\ OnlyNormalizers
    /\ output = <<>>
    /\ applied = ""
    /\ \/ /\ input \in CnjInputs \cup PhoneInputs
          /\ registry = <<>>
          /\ mesa = ""
          /\ title = None
       \/ /\ input \in OfficeInputs
          /\ mesa \in {"btblue", "bbmd"}
          /\ registry \in Registries(mesa)
          /\ title \in Titles

\* normalize_cnj(input) is called
ApplyCnj ==
    /\ applied = ""
    /\ output' = normalize_cnj_str(input)
    /\ applied' = "normalize_cnj"
    /\ UNCHANGED <<input, registry, mesa, title, engineVars, clientVars, envVars, cliVars, paceVars,
                   opVars, lateVars>>

\* normalize_cnj is called on what it returned
ApplyCnjAgain ==
    /\ applied = "normalize_cnj"
    /\ output # None
    /\ input' = output
    /\ output' = normalize_cnj_str(output)
    /\ applied' = "normalize_cnj twice"
    /\ UNCHANGED <<registry, mesa, title, engineVars, clientVars, envVars, cliVars, paceVars,
                   opVars, lateVars>>

\* normalize_phone(input) is called
ApplyPhone ==
    /\ applied = ""
    /\ output' = normalize_phone_str(input)
    /\ applied' = "normalize_phone"
    /\ UNCHANGED <<input, registry, mesa, title, engineVars, clientVars, envVars, cliVars, paceVars,
                   opVars, lateVars>>

\* normalize_escritorio(input, mesa) is called
ApplyEscritorio ==
    /\ applied = ""
    /\ mesa # ""
    /\ output' = normalize_escritorio(input, registry)
    /\ applied' = "normalize_escritorio"
    /\ UNCHANGED <<input, registry, mesa, title, engineVars, clientVars, envVars, cliVars, paceVars,
                   opVars, lateVars>>

\* lines 96-121 of transform: the office name of the row, filled from Ploomes
\* when empty
escritorio_series(cell, valid_escritorios, found_escritorio) ==
    LET escritorio == normalize_escritorio(cell, valid_escritorios)[1]
    IN IF escritorio = <<>> /\ found_escritorio # None THEN found_escritorio
       ELSE escritorio

\* line 124: self.mesa and self.mesa.upper() == "BBMD"
IsBBMD(m) == m \in {"BBMD", "bbmd"}

\* lines 96-128 of transform: the office column of one row
TransformOffice ==
    /\ applied = ""
    /\ mesa # ""
    /\ output' = <<IF IsBBMD(mesa) THEN BBMD_OFFICE
                   ELSE escritorio_series(input, registry, title),
                   normalize_escritorio(input, registry)[2]>>
    /\ applied' = "transform"
    /\ UNCHANGED <<input, registry, mesa, title, engineVars, clientVars, envVars, cliVars, paceVars,
                   opVars, lateVars>>

\* the office name that transform put out is passed to normalize_escritorio
\* for the same mesa
FeedBack ==
    /\ applied = "transform"
    /\ input' = output[1]
    /\ output' = normalize_escritorio(output[1], registry)
    /\ applied' = "transform, normalize_escritorio"
    /\ UNCHANGED <<registry, mesa, title, engineVars, clientVars, envVars, cliVars, paceVars,
                   opVars, lateVars>>

PureNext ==
    \/ ApplyCnj
    \/ ApplyPhone
    \/ ApplyEscritorio
    \/ TransformOffice
    \/ FeedBack
    \/ ApplyCnjAgain

PureSpec == PureInit /\ [][PureNext]_vars

\* ------------------------------------------------------------------------
\* delete_deals.py: main
\* ------------------------------------------------------------------------
\* the keys of PIPELINE_CONFIG
PIPELINE_CONFIG ==
    {"BT Blue Pipeline", "2B Ativos Pipeline", "BBMD Pipeline", "Pipeline de Teste"}

\* what --pipeline may hold
PipelineArgs == {"BT Blue Pipeline", "Pipeline Desconhecido"}

\* the command is started: the spreadsheet may exist or not, the pipeline may
\* be known or not, PLOOMES_API_TOKEN / --api-token may be set or not; the
\* Parceiros credentials of the pipeline are found iff has_parceiros
\* (get_parceiros_credentials, lines 332-343); cnj_list and cnj_errors are what
\* load_cnjs_from_excel reads from the spreadsheet
CliInit ==
    /\ EngineInit(CNJ)
    /\ SingleRun
    /\ ClientIdle
    /\ PureIdle
    /\ PaceIdle
    /\ OpIdle /\ LateIdle
    /\ args \in [input_exists : BOOLEAN, pipeline : PipelineArgs, api_token : BOOLEAN]
    /\ main_pc = "parse_args"
    /\ exit_code = -1
    /\ exited_at = ""

\* sys.exit(code), or return code from main
Exit(code, at) ==
    /\ main_pc' = "exited"
    /\ exit_code' = code
    /\ exited_at' = at
    /\ UNCHANGED args

\* the main continues at the given position
Goto(position) ==
    /\ main_pc' = position
    /\ UNCHANGED <<args, exit_code, exited_at>>

\* line 256: parse_args leaves with status 2 when --pipeline is not one of
\* the choices
ParseArgs ==
    /\ main_pc = "parse_args"
    /\ IF args.pipeline \notin PIPELINE_CONFIG
       THEN Exit(2, "parse_args")
       ELSE Goto("validate")
    /\ UNCHANGED <<engineVars, clientVars, envVars, pureVars, paceVars,
                   opVars, lateVars>>

\* lines 262-279: input file, pipeline, API token
Validate ==
    /\ main_pc = "validate"
    /\ IF ~args.input_exists THEN Exit(1, "input")
       ELSE IF args.pipeline \notin PIPELINE_CONFIG THEN Exit(1, "pipeline")
       ELSE IF ~args.api_token THEN Exit(1, "api_token")
       ELSE Goto("load_cnjs_from_excel")
    /\ UNCHANGED <<engineVars, clientVars, envVars, pureVars, paceVars,
                   opVars, lateVars>>

\* lines 315-358: the spreadsheet is read (which may raise), an empty list
\* ends the command with status 0, otherwise the clients and PloomesSync are
\* built and process_cnj_list is called
LoadCnjs ==
    /\ main_pc = "load_cnjs_from_excel"
    /\ \E out \in {"ok", "raise"} :
         IF out = "raise" THEN Exit(1, "except")
         ELSE IF cnj_list = <<>> THEN Exit(0, "no cnj")
         ELSE Goto("process_cnj_list")
    /\ UNCHANGED <<engineVars, clientVars, envVars, pureVars, paceVars,
                   opVars, lateVars>>

\* faulty variant: the exit status tells whether the report holds failures
ExitCodeFromReport(rep) ==
    IF rep.failed_movements > 0 \/ rep.skipped_deletions > 0 THEN 1 ELSE 0

\* line 489: return 0
ExitCode(rep) == 0

\* the case number that validate_interactions extracts from an origin deal:
\* that of the deal it spawned
OriginCnj(o) == IF o = OriginA THEN "A" ELSE IF o = OriginB THEN "B" ELSE ""

\* validate_interactions.py, lines 232-298: the deals of the stages used that
\* have an error description in the spreadsheet
ToValidate(stages) ==
    {o \in OriginIds : crm[o].StageId \in stages /\ cnj_errors[OriginCnj(o)] # ""}

\* validate_interactions.py, lines 318-337: the interaction record is created
\* and made the last one of the deal
Validated(c, created) ==
    [d \in DOMAIN c |->
        IF d \in created
        THEN update_deal_last_interaction_record(create_interaction_record(c, d), d,
                                                 c[d].notes + 1)[d]
        ELSE c[d]]

\* lines 360-396: process_cnj_list has returned; for every stage of
\* report.origin_stages_used main runs validate_interactions.py on the input
\* file, with no dry-run option: each deal of the stage that has an error
\* description and no interaction record with that content gets one, unless
\* a call fails
ValidateInteractions ==
    /\ main_pc = "process_cnj_list"
    /\ pc = "Done"
    /\ \E created \in SUBSET ToValidate(report.origin_stages_used) :
         /\ \A o \in ToValidate(report.origin_stages_used) :
               (run <= reliable /\ crm[o].LastInteractionRecordId = 0) => o \in created
         /\ crm' = Validated(crm, created)
         /\ lastCall' = IF created = {} THEN NoCall
                        ELSE <<"create_interaction_record", "validate_interactions",
                               CHOOSE o \in created : TRUE>>
    /\ Goto("generate_report_excel")
    /\ UNCHANGED <<cnj_list, cnj_errors, dry_run, has_parceiros, crm0, token, pc, step,
                   preserved, deletion_stage_empty, tasks, results, report, queue, cur,
                   counts, target_delete_stats, raised, clientVars, envVars, pureVars,
                   paceVars, opVars, lateVars>>

\* lines 398-497: generate_report_excel, removal of the input file and the
\* upload follow, then return 0; an exception on the way ends the command
\* with status 1
Finish ==
    /\ main_pc = "generate_report_excel"
    /\ pc = "Done"
    /\ \E out \in {"ok", "raise"} :
         IF out = "raise" THEN Exit(1, "except")
         ELSE Exit(ExitCode(report), "return")
    /\ UNCHANGED <<engineVars, clientVars, envVars, pureVars, paceVars,
                   opVars, lateVars>>

CliNext ==
    \/ ParseArgs
    \/ Validate
    \/ LoadCnjs
    \/ Next
    \/ ValidateInteractions
    \/ Finish

CliSpec == CliInit /\ [][CliNext]_vars

\* ------------------------------------------------------------------------
\* PloomesClient._apply_rate_limit under the worker threads of MatchPhase
\* ------------------------------------------------------------------------
\* the resolution of the clock, in units of 1/32 s
Quantum == InitialInterval \div 2

PaceInit ==
    /\ EngineIdle
    /\ SingleRun
    /\ ClientIdle
    /\ PureIdle
    /\ CliIdle
    /\ PaceIdle
    /\ OpIdle /\ LateIdle

\* time passes
Tick ==
    /\ now < StartTime + MaxTicks * Quantum
    /\ now' = now + Quantum
    /\ UNCHANGED <<last_request_time, thread, sent, engineVars, clientVars, envVars,
                   pureVars, cliVars, opVars, lateVars>>

\* lines 59-61: the thread reads last_request_time and decides how long to sleep
ReadElapsed(t) ==
    /\ thread[t].at = "out"
    /\ thread[t].n < MaxCalls
    /\ LET elapsed == now - last_request_time
       IN thread' = [thread EXCEPT ![t].at = IF elapsed < min_request_interval
                                             THEN "sleeping" ELSE "awake",
                                   ![t].wake = IF elapsed < min_request_interval
                                               THEN now + (min_request_interval - elapsed)
                                               ELSE now]
    /\ UNCHANGED <<now, last_request_time, sent, engineVars, clientVars, envVars,
                   pureVars, cliVars, opVars, lateVars>>

\* line 61: time.sleep returns
WakeUp(t) ==
    /\ thread[t].at = "sleeping"
    /\ now >= thread[t].wake
    /\ thread' = [thread EXCEPT ![t].at = "awake"]
    /\ UNCHANGED <<now, last_request_time, sent, engineVars, clientVars, envVars,
                   pureVars, cliVars, opVars, lateVars>>

\* lines 62 and 90: the thread writes last_request_time and sends the request
WriteAndSend(t) ==
    /\ thread[t].at = "awake"
    /\ last_request_time' = now
    /\ sent' = Append(sent, now)
    /\ thread' = [thread EXCEPT ![t].at = "out", ![t].n = @ + 1]
    /\ UNCHANGED <<now, engineVars, clientVars, envVars, pureVars, cliVars, opVars, lateVars>>

PaceNext ==
    \/ Tick
    \/ \E t \in Threads : ReadElapsed(t)
    \/ \E t \in Threads : WakeUp(t)
    \/ \E t \in Threads : WriteAndSend(t)

PaceSpec == PaceInit /\ [][PaceNext]_vars

\* ------------------------------------------------------------------------
\* PloomesClient: the methods built on _make_request
\* ------------------------------------------------------------------------
Methods == {"search_deals_by_cnj", "search_deals_by_stage", "update_deal_stage",
            "delete_deal"}

\* the methods that answer True or False
Commands == {"update_deal_stage", "delete_deal"}

\* what a method returns without a request when its argument is rejected
\* (lines 143-153, 225-230, 258-260, 283-285), and in its except clause
Failure(m) == IF m \in Commands THEN "False" ELSE "[]"

\* faulty variant: the except clause lets the exception through
Reraised(m) == "PloomesAPIError"

\* except PloomesAPIError: lines 164-165, 241-245, 265-267
OnPloomesAPIError(m) == Failure(m)

\* a method is called; with a valid argument it calls _make_request
Invoke ==
    /\ req \in {"idle", "returned", "raised"}
    /\ method = "" \/ result # ""
    /\ requests < MaxRequests
    /\ \E m \in Methods, valid \in BOOLEAN :
         /\ method' = m
         /\ IF valid
            THEN /\ result' = ""
                 /\ req' = "attempting"
                 /\ attempt' = 0
                 /\ response' = ""
                 /\ waited' = 0
                 /\ requests' = requests + 1
            ELSE /\ result' = Failure(m)
                 /\ UNCHANGED <<req, attempt, response, waited, requests>>
    /\ UNCHANGED <<min_request_interval, engineVars, envVars, pureVars, cliVars, paceVars, lateVars>>

\* _make_request has returned or raised: the method returns; response.json()
\* of the searches may raise on a body that is not JSON
Return ==
    /\ method # ""
    /\ result = ""
    /\ req \in {"returned", "raised"}
    /\ \/ /\ req = "raised"
          /\ result' = OnPloomesAPIError(method)
       \/ /\ req = "returned"
          /\ method \in Commands
          /\ result' = "True"
       \/ /\ req = "returned"
          /\ method \notin Commands
          /\ result' \in {"value", "JSONDecodeError"}
    /\ UNCHANGED <<method, clientVars, engineVars, envVars, pureVars, cliVars, paceVars, lateVars>>

MethodNext ==
    \/ Invoke
    \/ AttemptReturns
    \/ AttemptRetried
    \/ AttemptRaises
    \/ Return

MethodSpec == ClientInit /\ [][MethodNext]_vars

\* ------------------------------------------------------------------------
\* Vocabulary of the properties
\* ------------------------------------------------------------------------
\* position of a phase in the body of process_cnj_list
PhaseRank(p) ==
    CASE p = "Start" -> 0
      [] p = "Match" -> 1
      [] p = "Origin" -> 2
      [] p = "Purge" -> 3
      [] p = "Stale" -> 4
      [] p = "Done" -> 5
      [] OTHER -> 6

NextPhase(p) ==
    CASE p = "Start" -> "Match"
      [] p = "Match" -> "Origin"
      [] p = "Origin" -> "Purge"
      [] p = "Purge" -> "Stale"
      [] OTHER -> "Done"

\* the client calls that change the CRM
MutatingCalls == {"update_deal_stage", "delete_deal", "create_interaction_record",
                  "update_deal_last_interaction_record"}

\* the step being taken calls delete_deal from the code of StaleCleanupPhase
StaleDeleteCall ==
    /\ lastCall' # NoCall
    /\ lastCall'[1] = "delete_deal"
    /\ lastCall'[2] = "Stale"

\* the records of the running loop that the step being taken does not handle
Pending == IF step = "loop" THEN Tail(queue) ELSE queue

\* the deletion stage held no deal when the run started
StageEmptyAtStart == search_deals_by_stage(crm0, deletion_stage_id) = <<>>

\* ------------------------------------------------------------------------
\* C1: the phases run in the order MatchPhase, OriginPropagationPhase,
\* PurgeConfirmedPhase, StaleCleanupPhase, Done: every step either stays in
\* its phase or enters the next one (so no phase is entered twice), and every
\* client call is issued by the code of the phase the run is in (so no
\* operation of an earlier phase is issued once a later phase has started).
\* ------------------------------------------------------------------------
C1_PhasesInOrder ==
    [][ /\ PhaseRank(pc') \in {PhaseRank(pc), PhaseRank(pc) + 1}
        /\ (lastCall' # NoCall => lastCall'[2] = pc) ]_vars

\* a finished run in which every phase did some work
C1_AllPhasesWorked ==
    /\ pc = "Done"
    /\ report.successfully_moved > 0
    /\ report.origin_stages_used # {}
    /\ target_delete_stats.deleted > 0
    /\ report.successfully_deleted > 0

\* ------------------------------------------------------------------------
\* C2: whatever the client calls answer (a result, a failure value or an
\* exception, in any phase), the run eventually reaches Done, where the
\* report is returned.
\* ------------------------------------------------------------------------
C2_ReachesDone == <>(pc = "Done")

\* a finished run with a failed movement, a failed purge deletion and an
\* exception caught by the last step
C2_DoneAfterFailures ==
    /\ pc = "Done"
    /\ raised
    /\ report.failed_movements > 0
    /\ target_delete_stats.skipped > 0

C4_DeleteOnlyWhenLeadFound ==
    [][ /\ (StaleDeleteCall /\ has_parceiros) => cur.check = "leads"
        /\ (pc = "Stale" /\ step = "lookup" /\ lastCall' # NoCall
               /\ ~raised' /\ step' # "delete")
             => /\ crm' = crm
                /\ counts'.skipped = counts.skipped + 1 ]_vars

\* ------------------------------------------------------------------------
\* C5 as stated: when the existence check of a deal cannot be completed
\* (authenticate fails or get_leads_by_cnj raises), StaleCleanupPhase makes
\* no delete_deal call for the deal and counts it as skipped.
\* ------------------------------------------------------------------------
C5_UncertainNeverDeleted ==
    [][ (pc = "Stale" /\ step \in {"auth", "lookup"} /\ raised')
            => /\ step' # "delete"
               /\ counts'.skipped = counts.skipped + 1 ]_vars

\* ------------------------------------------------------------------------
\* C6 as stated (outside a dry run): in StaleCleanupPhase a deal of the
\* preserve set gets no delete_deal call and changes no counter; every other
\* re-fetched deal that is confirmed (here: no Parceiros client is configured)
\* gets its delete_deal call, and a successful delete increments the count of
\* deleted deals.  The phase is therefore left only when no such deal is
\* still waiting for its call.
\* ------------------------------------------------------------------------
C6_StaleDecisions ==
    [][ (pc = "Stale" /\ ~dry_run) =>
          /\ (step = "loop" /\ CnjLabel(Head(queue)) \in preserved)
                => /\ lastCall' = NoCall
                   /\ crm' = crm
                   /\ counts'.deleted = counts.deleted
                   /\ counts'.skipped = counts.skipped
          /\ step = "delete"
                => /\ lastCall' = <<"delete_deal", "Stale", cur.deal>>
                   /\ (crm'[cur.deal].StageId = NoStage
                          => counts'.deleted = counts.deleted + 1)
          /\ (pc' = "Done" /\ ~has_parceiros /\ step # "search")
                => \A k \in DOMAIN Pending : CnjLabel(Pending[k]) \in preserved ]_vars

\* ------------------------------------------------------------------------
\* C7: in a dry run no mutating client call is issued in any phase and the
\* CRM stays as it was when the run started.
\* ------------------------------------------------------------------------
C7_DryRunChangesNothing ==
    dry_run => /\ crm = crm0
               /\ (lastCall # NoCall => lastCall[1] \notin MutatingCalls)

\* a finished dry run with a Parceiros client in which MatchPhase,
\* PurgeConfirmedPhase and StaleCleanupPhase each read the CRM (and Parceiros)
\* and counted a change they did not make
C7_DryRunCounted ==
    /\ dry_run
    /\ has_parceiros
    /\ pc = "Done"
    /\ report.successfully_moved > 0
    /\ target_delete_stats.deleted > 0
    /\ report.successfully_deleted > 0

C9_SiblingsStillProcessed ==
    [][ /\ (pc = "Match" /\ pc' # pc)
             => \A i \in DOMAIN tasks : tasks[i].st = "done"
        /\ (pc \in {"Origin", "Purge", "Stale"} /\ step # "search" /\ pc' # pc)
             => Pending = <<>> ]_vars

\* ------------------------------------------------------------------------
\* C10: a step that catches an exception stays in its phase or starts the
\* next phase from its beginning, so every later phase still runs; what
\* MatchPhase put in the report is not changed by the later phases, and when
\* StaleCleanupPhase is ended by an exception the deletions and skips counted
\* before it are the ones the report holds.
\* ------------------------------------------------------------------------
C10_ExceptionsContained ==
    [][ /\ (raised' /\ pc' # pc)
             => /\ pc' = NextPhase(pc)
                /\ (pc' # "Done" => step' \in {"run", "search"})
        /\ PhaseRank(pc) >= 2
             => /\ report'.successfully_moved = report.successfully_moved
                /\ report'.failed_movements = report.failed_movements
                /\ report'.results = report.results
        /\ (pc = "Stale" /\ raised' /\ pc' = "Done")
             => /\ report'.successfully_deleted = counts.deleted
                /\ report'.skipped_deletions = counts.skipped ]_vars

\* StaleCleanupPhase was ended by an exception after it had counted a
\* deletion, in a run whose MatchPhase had recorded a failure
C10_PartialWorkKept ==
    /\ pc = "Done"
    /\ raised
    /\ report.successfully_deleted > 0
    /\ report.failed_movements > 0


\* ------------------------------------------------------------------------
\* PloomesClient._make_request: retries and pacing
\* ------------------------------------------------------------------------
\* an attempt of the retry loop has just received `resp`
Received(resp) == req = "attempting" /\ response' = resp

\* C11: _make_request retries only on HTTP 429 and makes at most 3 attempts:
\* a 429 on attempt k (k = 0, 1) is followed by a wait of 1 * 2^k seconds and
\* a new attempt, a 429 on the third attempt raises PloomesAPIError.
C11_RetryOnly429 ==
    [][ /\ attempt' < 3
        /\ (req = "attempting" /\ req' = "attempting") => Received("429")
        /\ (Received("429") /\ attempt < 2) =>
               /\ req' = "attempting"
               /\ attempt' = attempt + 1
               /\ waited' = 2^attempt
        /\ (Received("429") /\ attempt = 2) => req' = "raised"
      ]_vars

C11_ThirdAttemptRaised ==
    req = "raised" /\ response = "429" /\ attempt = 2

\* C12: an HTTP error other than 429, or a transport error, ends the request at
\* once: no further attempt, no backoff wait, PloomesAPIError raised, also on
\* an attempt that follows a retried 429.
C12_OtherErrorsRaiseAtOnce ==
    [][ (Received("http_error") \/ Received("transport_error")) =>
            /\ req' = "raised"
            /\ attempt' = attempt
            /\ waited' = 0
            /\ min_request_interval' = min_request_interval
      ]_vars

C12_RaisedAfterRetry ==
    req = "raised" /\ response \in {"http_error", "transport_error"} /\ attempt = 1

\* C13: min_request_interval never decreases: it starts at 0.5 s (16/32), is
\* multiplied by 1.5 on every retried 429 up to the cap of 2.0 s (64/32), and
\* nothing else changes it.
C13_IntervalNeverDecreases ==
    [][ /\ requests = 0 => min_request_interval = 16
        /\ min_request_interval' >= min_request_interval
        /\ min_request_interval' <= 64
        /\ (Received("429") /\ req' = "attempting") =>
               \/ 2 * min_request_interval' = 3 * min_request_interval
               \/ /\ min_request_interval' = 64
                  /\ 3 * min_request_interval >= 2 * 64
        /\ ~(Received("429") /\ req' = "attempting") =>
               min_request_interval' = min_request_interval
      ]_vars

C13_CapKeptAfterSuccess ==
    min_request_interval = 64 /\ req = "returned" /\ requests > 2


\* ------------------------------------------------------------------------
\* MatchPhase: the report and the worker threads
\* ------------------------------------------------------------------------
\* a worker task that has not completed
Unfinished == {i \in DOMAIN tasks : tasks[i].st # "done"}

\* C14: in MatchPhase no counter or result list of the SyncReport is written
\* while a worker task is still running: successfully_moved, failed_movements
\* and report.results are updated only by the calling thread after every
\* submitted task has completed.
C14_ReportWrittenAfterJoin ==
    [][ /\ Unfinished # {} =>
               /\ report.successfully_moved = 0
               /\ report.failed_movements = 0
               /\ report.results = <<>>
        /\ (\/ report'.successfully_moved # report.successfully_moved
            \/ report'.failed_movements # report.failed_movements
            \/ report'.results # report.results) =>
               /\ pc = "Match"
               /\ Unfinished = {}
               /\ Len(tasks) = Len(cnj_list)
               /\ Len(report'.results) = Len(cnj_list)
               /\ lastCall' = NoCall
      ]_vars

C14_TwoResultsAggregated ==
    /\ pc = "Origin"
    /\ Len(report.results) = 2
    /\ report.successfully_moved = 1
    /\ report.failed_movements = 1


\* ------------------------------------------------------------------------
\* PurgeConfirmedPhase: every deal of the target stage, counted once
\* ------------------------------------------------------------------------
\* C15: outside a dry run, _delete_all_deals_in_target_stage attempts
\* delete_deal once for every deal found in the target stage, whatever happened
\* to the deals before it in the loop; the returned deleted + skipped equals
\* the number of deals found; an empty stage yields 0/0 with no delete call.
C15_PurgeAttemptsEveryDeal ==
    [][ (pc = "Purge" /\ ~dry_run) =>
            /\ step = "loop" =>
                   /\ lastCall' = <<"delete_deal", "Purge", Head(queue)>>
                   /\ pc' = "Purge" => queue' = Tail(queue)
                   /\ pc' = "Stale" =>
                          /\ Tail(queue) = <<>>
                          /\ target_delete_stats'.deleted + target_delete_stats'.skipped
                                 = counts.n
            /\ (step = "search" /\ pc' = "Stale") =>
                   /\ lastCall'[1] # "delete_deal"
                   /\ target_delete_stats' = [deleted |-> 0, skipped |-> 0]
      ]_vars


\* ------------------------------------------------------------------------
\* The preserve set and the "already exists" error
\* ------------------------------------------------------------------------
\* the case numbers of the input list
Listed == {cnj_list[i] : i \in DOMAIN cnj_list}

\* C16: a CNJ of the input list whose error description says "ja existe" is
\* left out of the preserve set, every other CNJ of the list is in it; in
\* StaleCleanupPhase a deletion-stage deal carrying an excluded CNJ goes on to
\* the Parceiros check and the deletion, a deal carrying a preserved CNJ is
\* skipped.
C16_JaExisteNotPreserved ==
    [][ pc # "Start" =>
            /\ \A c \in Listed :
                   c \in preserved <=> cnj_errors[c] # "Lead JA EXISTE"
            /\ preserved \subseteq Listed
            /\ (pc = "Stale" /\ step = "loop") =>
                   IF /\ CnjLabel(Head(queue)) \in Listed
                      /\ cnj_errors[CnjLabel(Head(queue))] # "Lead JA EXISTE"
                   THEN /\ cur' = cur
                        /\ counts' = counts \/ pc' = "Done"
                        /\ crm' = crm
                   ELSE /\ cur'.deal = Head(queue)
                        /\ step' = IF ~has_parceiros THEN "delete"
                                   ELSE IF token THEN "lookup" ELSE "auth"
      ]_vars

\* with a Parceiros client, the deal of a listed CNJ with the "ja existe" error
\* was deleted by StaleCleanupPhase
C16_JaExisteDealDeleted ==
    /\ "A" \in Listed
    /\ cnj_errors["A"] = "Lead JA EXISTE"
    /\ has_parceiros
    /\ lastCall = <<"delete_deal", "Stale", 1>>
    /\ ~raised
    /\ crm[1].StageId = NoStage


\* ------------------------------------------------------------------------
\* _move_origin_deal: the note and the stage of the origin deal
\* ------------------------------------------------------------------------
\* _move_origin_deal has just read the origin deal and found it in the stage
\* mapped for its pipeline
FoundInMappedStage ==
    pc = "Origin" /\ step = "loop" /\ pc' = "Origin" /\ cur'.mode = "same"

\* the calls made for an origin deal that is already in its mapped stage: no
\* update_deal_stage; update_deal_last_interaction_record follows a note that
\* was created
SameStageCalls ==
    (pc = "Origin" /\ cur.mode = "same") =>
        /\ lastCall' = NoCall \/ lastCall'[1] # "update_deal_stage"
        /\ crm'[cur.origin].StageId = crm[cur.origin].StageId
        /\ step = "note" =>
               /\ lastCall' = <<"create_interaction_record", "Origin", cur.origin>>
               /\ step' = IF crm'[cur.origin].notes > crm[cur.origin].notes
                          THEN "setlast" ELSE "return"
        /\ step = "setlast" =>
               /\ lastCall' = <<"update_deal_last_interaction_record", "Origin", cur.origin>>
               /\ step' = "return"
        /\ step = "return" => lastCall' = NoCall

\* C17 as stated: for an origin deal already in its mapped stage,
\* update_deal_stage is never called, and create_interaction_record (followed
\* by update_deal_last_interaction_record) is called if and only if an error
\* description is given and the origin deal has no LastInteractionRecordId.
C17_NoteIffDescriptionAndNoRecord ==
    [][ /\ SameStageCalls
        /\ FoundInMappedStage =>
               (step' = "note" <=>
                    /\ cur'.err # ""
                    /\ crm[cur'.origin].LastInteractionRecordId = 0)
      ]_vars

\* C17 amended: the same, with the note calls made only outside a dry run.
C17_NoteIffNotDryRun ==
    [][ /\ SameStageCalls
        /\ FoundInMappedStage =>
               /\ step' \in {"note", "return"}
               /\ step' = "note" <=>
                      /\ cur'.err # ""
                      /\ ~dry_run
                      /\ crm[cur'.origin].LastInteractionRecordId = 0
      ]_vars

\* an origin deal already in its mapped stage got its note and its
\* LastInteractionRecordId
C17_NoteWrittenInMappedStage ==
    /\ pc = "Origin"
    /\ cur.mode = "same"
    /\ cur.err # ""
    /\ lastCall = <<"update_deal_last_interaction_record", "Origin", cur.origin>>
    /\ ~raised
    /\ crm0[cur.origin].LastInteractionRecordId = 0
    /\ crm[cur.origin].LastInteractionRecordId = cur.note
    /\ cur.note > 0
    /\ crm[cur.origin].StageId = crm0[cur.origin].StageId


\* _move_origin_deal has just read an origin deal that is not in its mapped
\* stage, with an error description, outside a dry run
FoundOutsideMappedStage ==
    /\ pc = "Origin" /\ step = "loop" /\ pc' = "Origin"
    /\ cur'.mode = "move" /\ cur'.err # "" /\ ~dry_run

\* C18: for an origin deal that is not in its mapped stage, with an error
\* description and outside a dry run, create_interaction_record is called
\* before update_deal_stage, and LastInteractionRecordId is set to the id of
\* the note just created.
C18_NoteBeforeStageUpdate ==
    [][ /\ FoundOutsideMappedStage => step' = "note"
        /\ (pc = "Origin" /\ cur.mode = "move" /\ cur.err # "" /\ ~dry_run) =>
               /\ step = "note" =>
                      /\ lastCall' = <<"create_interaction_record", "Origin", cur.origin>>
                      /\ crm[cur.origin].StageId # MappedStage
                      /\ IF crm'[cur.origin].notes > crm[cur.origin].notes
                         THEN step' = "setlast" /\ cur'.note = crm'[cur.origin].notes
                         ELSE step' = "update"
               /\ step = "setlast" =>
                      /\ lastCall' = <<"update_deal_last_interaction_record",
                                       "Origin", cur.origin>>
                      /\ crm[cur.origin].StageId # MappedStage
                      /\ crm'[cur.origin].LastInteractionRecordId
                             \in {cur.note, crm[cur.origin].LastInteractionRecordId}
                      /\ step' = "update"
               /\ step = "update" =>
                      lastCall' = <<"update_deal_stage", "Origin", cur.origin>>
               /\ (lastCall' # NoCall /\ lastCall'[1] = "update_deal_stage") =>
                      step = "update"
      ]_vars

\* the origin deal was moved to its mapped stage after its note was created
\* and recorded as its last interaction record
C18_NotedThenMoved ==
    /\ lastCall = <<"update_deal_stage", "Origin", OriginA>>
    /\ ~raised
    /\ crm0[OriginA].StageId = OtherStage
    /\ crm[OriginA].StageId = MappedStage
    /\ crm[OriginA].notes = crm0[OriginA].notes + 1
    /\ crm[OriginA].LastInteractionRecordId = crm[OriginA].notes


\* ------------------------------------------------------------------------
\* Spellings of a case number
\* ------------------------------------------------------------------------
\* the deal at the head of the cleanup loop carries the case number of a
\* preserved entry of the input list, in the same or in another spelling
HeadDenotesPreserved ==
    \E c \in Listed :
        /\ cnj_errors[c] # "Lead JA EXISTE"
        /\ normalize_cnj(c) # ""
        /\ normalize_cnj(c) = normalize_cnj(CnjLabel(Head(queue)))

\* C19: case numbers are normalized before they are placed in the preserve set
\* and before the case number extracted from a deal is compared with it, so
\* a deal whose case number is that of a preserved input entry in another
\* spelling is skipped by StaleCleanupPhase as preserved.
C19_SpellingsCompareEqual ==
    [][ /\ pc # "Start" => \A c \in preserved : normalize_cnj(c) = c
        /\ (pc = "Stale" /\ step = "loop" /\ HeadDenotesPreserved) =>
               /\ cur' = cur
               /\ crm' = crm
               /\ lastCall' = NoCall
      ]_vars


\* ------------------------------------------------------------------------
\* Running process_cnj_list again
\* ------------------------------------------------------------------------
\* C20: when process_cnj_list is run again with the same input after a run in
\* which every call succeeded, with the CRM and Parceiros untouched in
\* between, the second run makes no stage update, note creation or deletion
\* and leaves the CRM as it found it.
C20_SecondRunChangesNothing ==
    [][ run > 1 =>
            /\ lastCall' = NoCall \/ lastCall'[1] \notin MutatingCalls
            /\ crm' = crm
      ]_vars


\* ------------------------------------------------------------------------
\* normalize_cnj
\* ------------------------------------------------------------------------
\* the positions of the separators in NNNNNNN-DD.AAAA.J.TR.OOOO
CnjLayout(s) ==
    /\ Len(s) = 25
    /\ s[8] = "-"
    /\ \A k \in {11, 16, 18, 21} : s[k] = "."
    /\ \A k \in (1..25) \ {8, 11, 16, 18, 21} : s[k] \in Digit

\* C21: for an input with exactly 20 digits normalize_cnj returns those digits,
\* in their order, in the layout NNNNNNN-DD.AAAA.J.TR.OOOO; for every other
\* digit count it returns None; no digit is dropped or added.
C21_TwentyDigitsOrNone ==
    applied = "normalize_cnj" =>
        IF Len(DigitsOf(input)) = 20
        THEN /\ output # None
             /\ CnjLayout(output)
             /\ DigitsOf(output) = DigitsOf(input)
        ELSE output = None

\* the example of the test suite: '12345678901234567890'
C21_TestExample ==
    /\ applied = "normalize_cnj"
    /\ input = <<"1", "2", "3", "4", "5", "6", "7", "8", "9", "0",
                 "1", "2", "3", "4", "5", "6", "7", "8", "9", "0">>
    /\ output = <<"1", "2", "3", "4", "5", "6", "7", "-", "8", "9", ".",
                  "0", "1", "2", "3", ".", "4", ".", "5", "6", ".",
                  "7", "8", "9", "0">>


\* C22: normalize_cnj is idempotent on valid input: applied to a string it
\* returned, it returns that string.
C22_CnjIdempotent ==
    [][ (applied = "normalize_cnj" /\ applied' = "normalize_cnj twice") =>
            /\ output' # None
            /\ output' = output
      ]_vars

\* normalize_cnj was applied to the result it gave for a punctuated input
\* with surrounding text
C22_NormalizedTwice ==
    /\ applied = "normalize_cnj twice"
    /\ output = input
    /\ CnjLayout(output)
    /\ output[1] = "7"


\* ------------------------------------------------------------------------
\* normalize_phone
\* ------------------------------------------------------------------------
\* (DD) NNNNN-NNNN when n = 11, (DD) NNNN-NNNN when n = 10
PhoneLayout(s, n) ==
    /\ Len(s) = n + 4
    /\ s[1] = "("
    /\ s[4] = ")"
    /\ s[5] = " "
    /\ s[n] = "-"
    /\ \A k \in (1..(n + 4)) \ {1, 4, 5, n} : s[k] \in Digit

\* the digits of the input without a leading 55 that makes them more than 11
WithoutCountryCode(ds) ==
    IF Len(ds) > 11 /\ ds[1] = "5" /\ ds[2] = "5" THEN SubSeq(ds, 3, Len(ds)) ELSE ds

\* C23: normalize_phone removes the non-digits, drops a leading 55 only when
\* there are more than 11 digits, and returns (DD) NNNNN-NNNN for 11 remaining
\* digits, (DD) NNNN-NNNN for 10, None for any other count; a string of 10 or
\* 11 digits keeps all its digits, the first two included.
C23_PhoneTenOrElevenDigits ==
    applied = "normalize_phone" =>
        LET rest == WithoutCountryCode(DigitsOf(input))
        IN /\ IF Len(rest) \in {10, 11}
              THEN /\ output # None
                   /\ PhoneLayout(output, Len(rest))
                   /\ DigitsOf(output) = rest
              ELSE output = None
           /\ Len(DigitsOf(input)) \in {10, 11} =>
                  /\ output # None
                  /\ DigitsOf(output) = DigitsOf(input)

\* an 11-digit number whose area code is 55 keeps it
C23_AreaCode55Kept ==
    /\ applied = "normalize_phone"
    /\ Len(DigitsOf(input)) = 11
    /\ SubSeq(input, 1, 2) = <<"5", "5">>
    /\ output # None
    /\ SubSeq(output, 1, 4) = <<"(", "5", "5", ")">>


\* ------------------------------------------------------------------------
\* normalize_escritorio
\* ------------------------------------------------------------------------
\* the registry keys equal to the name when case and surrounding blanks are
\* ignored
KeysEqualTo(name) ==
    {registry[k] : k \in {j \in DOMAIN registry : lower(registry[j]) = lower(strip(name))}}

\* an input equal to a registry key, case and surrounding blanks ignored, gives
\* that key and None
ExactMatchWins ==
    (applied = "" /\ applied' = "normalize_escritorio" /\ KeysEqualTo(input) # {}) =>
        /\ output'[1] \in KeysEqualTo(input)
        /\ output'[2] = None

\* the office name put out by transform, passed to normalize_escritorio again,
\* comes back unchanged and without a fuzzy correction
RoundTrip ==
    (applied = "transform" /\ applied' = "transform, normalize_escritorio") =>
        output' = <<output[1], None>>

\* C24: normalize_escritorio tries the case-insensitive exact match before any
\* fuzzy match, so an input equal to a registry key (case and surrounding
\* blanks ignored) returns (that key, None); and every office name put out by
\* the transformer, passed through normalize_escritorio again for the same
\* mesa, returns the same name with None as second element.
C24_ExactFirstAndRoundTrip ==
    [][ExactMatchWins /\ RoundTrip]_vars

\* ------------------------------------------------------------------------
\* delete_deals: exit status
\* ------------------------------------------------------------------------
\* what main checks before it reads the spreadsheet
Preconditions ==
    /\ args.input_exists
    /\ args.pipeline \in PIPELINE_CONFIG
    /\ args.api_token

\* no phase of process_cnj_list has started
NoPhaseStarted ==
    /\ pc = "Start"
    /\ crm = crm0
    /\ lastCall = NoCall
    /\ report = EmptyReport

C26_RequestsPaced ==
    \A i, j \in DOMAIN sent : i < j => sent[j] - sent[i] >= min_request_interval

\* ------------------------------------------------------------------------
\* MatchPhase: deals already in the target stage
\* ------------------------------------------------------------------------
\* when the run started the case number had a deal in the target stage
AlreadyInTarget(cnj) ==
    \E d \in DealIds : CnjField(d) = cnj /\ crm0[d].StageId = target_stage_id

\* the search of the worker was answered and returned deals
SearchAnswered(r) == r.error_message \notin {"Erro inesperado", "Negocio nao encontrado"}

\* C27: in MatchPhase a matched deal that is already in the target stage counts
\* as a success: the result of its case number has moved_successfully = TRUE,
\* it is counted in successfully_moved and not in failed_movements, and no
\* update_deal_stage call is made for it.
C27_AlreadyInTargetIsSuccess ==
    /\ pc \notin {"Start", "Match"} =>
          /\ \A k \in DOMAIN report.results :
                (AlreadyInTarget(report.results[k].cnj) /\ SearchAnswered(report.results[k]))
                    => report.results[k].moved_successfully
          /\ report.successfully_moved = CountMoved(report.results)
          /\ report.failed_movements = Len(report.results) - CountMoved(report.results)
    /\ (pc = "Match" /\ lastCall # NoCall /\ lastCall[1] = "update_deal_stage")
          => crm0[lastCall[3]].StageId # target_stage_id

\* ------------------------------------------------------------------------
\* MatchPhase: which deals are moved
\* ------------------------------------------------------------------------
\* when the run started the case number had no deal in the deletion stage
NoneInDeletionStage(cnj) ==
    \A d \in DealIds : CnjField(d) = cnj => crm0[d].StageId # deletion_stage_id

\* the step is a call of update_deal_stage made by a worker of MatchPhase
MatchUpdateCall ==
    /\ pc = "Match"
    /\ lastCall' # NoCall
    /\ lastCall'[1] = "update_deal_stage"

\* the results of the case numbers without a deal in the deletion stage are
\* failures with an error message
FailedWithMessage ==
    /\ \A i \in DOMAIN tasks :
          (tasks[i].st = "done" /\ NoneInDeletionStage(tasks[i].res.cnj)) =>
              (~tasks[i].res.moved_successfully /\ tasks[i].res.error_message # "")
    /\ \A k \in DOMAIN report.results :
          NoneInDeletionStage(report.results[k].cnj) =>
              (~report.results[k].moved_successfully /\ report.results[k].error_message # "")
    /\ pc \notin {"Start", "Match"} =>
          report.failed_movements = Len(report.results) - CountMoved(report.results)

\* C28: in MatchPhase update_deal_stage is called only for a deal that
\* search_deals_by_cnj returned for a listed case number and that is in the
\* deletion stage, and the call moves it to target_stage_id and changes nothing
\* else; a case number with no deal in the deletion stage gets
\* moved_successfully = FALSE with an error message, no update call, and is
\* counted in failed_movements.
C28_OnlyDeletionStageDealsMoved ==
    [][/\ MatchUpdateCall =>
            /\ crm0[lastCall'[3]].StageId = deletion_stage_id
            /\ \E k \in DOMAIN cnj_list : CnjField(lastCall'[3]) = normalize_cnj(cnj_list[k])
            /\ \A e \in DOMAIN crm :
                  crm'[e] # crm[e] =>
                      (e = lastCall'[3] /\ crm'[e] = [crm[e] EXCEPT !.StageId = target_stage_id])
       /\ FailedWithMessage']_vars

C28_OneMovedOneWithoutDeal ==
    /\ pc = "Origin"
    /\ ~dry_run
    /\ report.successfully_moved = 1
    /\ report.failed_movements = 1
    /\ \E k \in DOMAIN report.results :
          /\ NoneInDeletionStage(report.results[k].cnj)
          /\ report.results[k].error_message = "Nenhum negocio no estagio de delecao"
    /\ \E d \in DealIds :
          crm0[d].StageId = deletion_stage_id /\ crm[d].StageId = target_stage_id

\* ------------------------------------------------------------------------
\* the methods of the client swallow PloomesAPIError
\* ------------------------------------------------------------------------
\* C29: update_deal_stage and delete_deal never let a PloomesAPIError escape:
\* when _make_request raises they return False, and the two searches return
\* an empty list.
C29_PloomesAPIErrorSwallowed ==
    /\ result # "PloomesAPIError"
    /\ (method # "" /\ result # "" /\ req = "raised") => result = Failure(method)

C29_DeleteFailedAfterRetries ==
    /\ method = "delete_deal"
    /\ req = "raised"
    /\ response = "429"
    /\ attempt = max_retries - 1
    /\ result = "False"

\* ------------------------------------------------------------------------
\* _move_origin_deal: the deals it leaves alone
\* ------------------------------------------------------------------------
\* _move_origin_deal is called for the deal at the head of the loop and no
\* exception is raised
MoveOriginCalled ==
    /\ pc = "Origin"
    /\ step = "loop"
    /\ queue # <<>>
    /\ ~JaExiste(ErrorDescription(Head(queue)))
    /\ ~raised'

\* the deal has no OriginDealId, or the pipeline of its origin deal has no
\* entry in origin_config
NothingToMove(deal) ==
    \/ OriginDealId(deal) = 0
    \/ PipelineId(OriginDealId(deal)) # MappedPipeline

\* get_deal_by_id was called and _move_origin_deal returned at once
ReturnedAfterFetch(deal) ==
    /\ lastCall' = <<"get_deal_by_id", "Origin", OriginDealId(deal)>>
    /\ cur' = NoCur

TargetDealsAtStart == search_deals_by_stage(crm0, target_stage_id)

\* C31: in a dry run every operation that would have mutated is counted as a
\* success: each case number with a deal in the deletion stage whose search
\* was answered gets moved_successfully = TRUE; the purge of the target stage
\* counts each deal it found as deleted and none as skipped; and the cleanup
\* of the deletion stage counts one more deletion for every deal that reaches
\* the deletion step.
C31_DryRunCountsSuccess ==
    [][dry_run =>
         /\ \A i \in DOMAIN tasks' :
               (/\ tasks'[i].st = "done"
                /\ ~NoneInDeletionStage(tasks'[i].res.cnj)
                /\ SearchAnswered(tasks'[i].res)) => tasks'[i].res.moved_successfully
         /\ (pc = "Purge" /\ step = "loop") =>
               /\ counts'.skipped = 0 /\ target_delete_stats'.skipped = 0
               /\ \/ counts'.deleted = counts.deleted + 1
                  \/ target_delete_stats'.deleted = counts.deleted + 1
         /\ (pc' \in {"Stale", "Done"}) =>
               /\ target_delete_stats'.skipped = 0
               /\ target_delete_stats'.deleted \in {0, Len(TargetDealsAtStart)}
         /\ (pc = "Stale" /\ step = "delete") =>
               /\ counts'.deleted = counts.deleted + 1
               /\ counts'.skipped = counts.skipped
         /\ pc' = "Done" => report'.successfully_deleted = counts'.deleted]_vars

C31_DryRunAllCounted ==
    /\ dry_run
    /\ pc = "Done"
    /\ report.successfully_moved > 0
    /\ report.failed_movements = 0
    /\ target_delete_stats.deleted = Len(TargetDealsAtStart)
    /\ target_delete_stats.deleted > 0
    /\ report.successfully_deleted > 0
    /\ report.skipped_deletions = 0

\* ------------------------------------------------------------------------
\* dry run of the command
\* ------------------------------------------------------------------------
\* C32: a dry-run invocation of the delete_deals command makes no mutating
\* CRM call, the interaction validation that main launches for the stages of
\* report.origin_stages_used included: the CRM stays as it was.
C32_DryRunCommandMutatesNothing ==
    (main_pc # "" /\ dry_run) =>
        /\ crm = crm0
        /\ (lastCall # NoCall => lastCall[1] \notin MutatingCalls)

\* ------------------------------------------------------------------------
\* PlanilhaTransformer.transform: blank office names filled from Ploomes
\* ------------------------------------------------------------------------
MaxRows == 2

\* the office registry of the mesa of the transformer (a mesa other than BBMD)
OfficeRegistry == <<SilvaAdv>>

\* a row of input_df: its office cell and its case number, normalized
Rows == [office : {<<>>, SilvaAdv}, cnj : {"", "A", "B"}]

\* the titles a deal may carry
DealTitles == {<<>>, <<" ">>, <<" ">> \o lower(SilvaAdv)}

\* what search_deals_by_cnj may find for a case number
FoundDeals ==
    [StageId : {deletion_stage_id, target_stage_id}, Title : DealTitles,
     OriginDealId : {0, OriginA}]

\* transform is called on a sheet of one to MaxRows rows
TransformInit ==
    /\ EngineIdle /\ SingleRun /\ ClientIdle
    /\ PureIdle /\ CliIdle /\ PaceIdle /\ OpIdle /\ CacheIdle /\ DupIdle
    /\ rows \in UNION {[1..n -> Rows] : n \in 1..MaxRows}
    /\ with_client \in BOOLEAN
    /\ transform_pc = ""
    /\ row_idx = 0
    /\ offices = <<>>
    /\ lookups = <<>>

\* the row the loop of line 109 is at is left as it is: line 110 or 112
Skipped(idx) == offices[idx] # <<>> \/ rows[idx].cnj = ""

\* lines 109-113 and 122: the loop goes on with the next row
NextRow(found_escritorio) ==
    /\ offices' = IF found_escritorio = None THEN offices
                  ELSE [offices EXCEPT ![row_idx] = found_escritorio]
    /\ row_idx' = row_idx + 1
    /\ transform_pc' = "loop"

\* an exception leaves _find_escritorio_from_ploomes and transform: neither
\* has a try statement
TransformRaises ==
    /\ transform_pc' = "raised"
    /\ UNCHANGED <<offices, row_idx>>

\* lines 96-107: the office column is normalized; without a client or a
\* deletion stage the column is put out as it is (lines 122-141)
TransformBegin ==
    /\ transform_pc = ""
    /\ rows # <<>>
    /\ offices' = [i \in DOMAIN rows |->
                      normalize_escritorio(rows[i].office, OfficeRegistry)[1]]
    /\ lookups' = [i \in DOMAIN rows |-> <<>>]
    /\ row_idx' = 1
    /\ transform_pc' = IF with_client THEN "loop" ELSE "returned"
    /\ UNCHANGED <<rows, with_client, engineVars, clientVars, envVars, pureVars, cliVars,
                   paceVars, opVars, cacheVars, dupVars>>

\* lines 109-112: a row with an office name, or without a case number
TransformSkipRow ==
    /\ transform_pc = "loop"
    /\ row_idx <= Len(rows)
    /\ Skipped(row_idx)
    /\ NextRow(None)
    /\ UNCHANGED <<rows, with_client, lookups, engineVars, clientVars, envVars, pureVars,
                   cliVars, paceVars, opVars, cacheVars, dupVars>>

\* lines 113 and 166-186: search_deals_by_cnj answers for a blank row; the
\* first deal of the deletion stage gives its title, or its origin deal is
\* asked for
FindEscritorioSearch ==
    /\ transform_pc = "loop"
    /\ row_idx <= Len(rows)
    /\ ~Skipped(row_idx)
    /\ \E out \in {"ok", "fail", "raise"}, found \in {<<>>} \cup {<<d>> : d \in FoundDeals} :
         LET deals == IF out = "ok" THEN found ELSE <<>>
             deletion_deals == SelectSeq(deals, LAMBDA d : d.StageId = deletion_stage_id)
             answer == IF out # "ok" THEN out
                       ELSE IF deals = <<>> THEN "[]" ELSE "deals"
         IN /\ lookups' = [lookups EXCEPT
                              ![row_idx] = Append(@, <<"search_deals_by_cnj", answer>>)]
            /\ IF out = "raise" THEN TransformRaises
               ELSE IF deletion_deals = <<>> THEN NextRow(None)
               ELSE IF strip(deletion_deals[1].Title) # <<>>
                    THEN NextRow(strip(deletion_deals[1].Title))
               ELSE IF deletion_deals[1].OriginDealId # 0
                    THEN /\ transform_pc' = "get_deal_by_id"
                         /\ UNCHANGED <<offices, row_idx>>
               ELSE NextRow(None)
    /\ UNCHANGED <<rows, with_client, engineVars, clientVars, envVars, pureVars, cliVars,
                   paceVars, opVars, cacheVars, dupVars>>

\* lines 188-194: get_deal_by_id answers for the origin deal
FindEscritorioOrigin ==
    /\ transform_pc = "get_deal_by_id"
    /\ \E out \in {"ok", "fail", "raise"}, origin_title \in DealTitles :
         /\ lookups' = [lookups EXCEPT
                           ![row_idx] = Append(@, <<"get_deal_by_id", out>>)]
         /\ IF out = "raise" THEN TransformRaises
            ELSE IF out = "ok" /\ strip(origin_title) # <<>>
                 THEN NextRow(strip(origin_title))
            ELSE NextRow(None)
    /\ UNCHANGED <<rows, with_client, engineVars, clientVars, envVars, pureVars, cliVars,
                   paceVars, opVars, cacheVars, dupVars>>

\* lines 122-141: the loop is over, the frame is returned
TransformReturn ==
    /\ transform_pc = "loop"
    /\ row_idx > Len(rows)
    /\ transform_pc' = "returned"
    /\ UNCHANGED <<rows, with_client, row_idx, offices, lookups, engineVars, clientVars,
                   envVars, pureVars, cliVars, paceVars, opVars, cacheVars, dupVars>>

TransformNext ==
    \/ TransformBegin
    \/ TransformSkipRow
    \/ FindEscritorioSearch
    \/ FindEscritorioOrigin
    \/ TransformReturn

TransformSpec == TransformInit /\ [][TransformNext]_vars

\* the lookup made for row i failed or raised
LookupFailed(i) ==
    /\ lookups[i] # <<>>
    /\ lookups[i][Len(lookups[i])][2] \in {"fail", "raise"}

\* how often _find_escritorio_from_ploomes was called for row i
FindCalls(i) ==
    Cardinality({k \in DOMAIN lookups[i] : lookups[i][k][1] = "search_deals_by_cnj"})

\* C33: a failing or raising CRM lookup for a blank office name never aborts
\* transform: the row is emitted with an empty office name, the other rows
\* keep their normalized office names, and one lookup at most is made for a
\* blank row (none for another row).
C33_LookupFailureNeverAborts ==
    /\ transform_pc # "raised"
    /\ transform_pc = "returned" =>
          /\ Len(offices) = Len(rows)
          /\ \A i \in DOMAIN rows :
                /\ (with_client /\ LookupFailed(i)) => offices[i] = <<>>
                /\ lookups[i] = <<>> =>
                      offices[i] = normalize_escritorio(rows[i].office, OfficeRegistry)[1]
    /\ \A i \in DOMAIN lookups :
          /\ FindCalls(i) <= 1
          /\ lookups[i] # <<>> => (rows[i].office = <<>> /\ rows[i].cnj # "")

\* ------------------------------------------------------------------------
\* the office registry cache
\* ------------------------------------------------------------------------
MaxLoads == 3

\* the mesa argument of _load_valid_escritorios ("" = None or "")
Mesas == {"", "bbmd", "BBMD"}

\* line 26: mesa or "default"
cache_key(m) == IF m = "" THEN "default" ELSE m

\* lines 31-35: the backing file of the mesa, its name in lower case
json_path(m) == IF m = "" THEN "escritorios.json" ELSE "escritorios_bbmd.json"

CacheKeys == {cache_key(m) : m \in Mesas}
JsonPaths == {json_path(m) : m \in Mesas}

NotCached == [cached |-> FALSE, escritorios |-> {}]
Cached(data) == [cached |-> TRUE, escritorios |-> data]

\* what a backing file may hold: nothing (FileNotFoundError), text that is
\* not JSON (JSONDecodeError), something that makes lines 38-40 raise another
\* exception (a file that may not be read, bytes that are not UTF-8, JSON
\* that is not an object), or a registry, given by its office names
FileContents ==
    [kind : {"missing", "malformed", "unreadable"}, escritorios : {{}}]
    \cup [kind : {"json"}, escritorios : {{SilvaAdv}, {SilvaAdv, MeloCia}}]

\* the module is imported: line 12
CacheInit ==
    /\ EngineIdle /\ SingleRun /\ ClientIdle
    /\ PureIdle /\ CliIdle /\ PaceIdle /\ OpIdle /\ RowIdle /\ DupIdle
    /\ cache = [k \in CacheKeys |-> NotCached]
    /\ files \in [JsonPaths -> FileContents]
    /\ loads = <<>>

\* lines 37-45: what reading the file gives: the registry that is cached, or
\* the exception that leaves the function
Loaded(content) ==
    [raised |-> content.kind = "unreadable", escritorios |-> content.escritorios]

\* _load_valid_escritorios(mesa), lines 26-45
LoadValidEscritorios ==
    /\ Len(loads) < MaxLoads
    /\ \E m \in Mesas :
         IF cache[cache_key(m)].cached
         THEN /\ loads' = Append(loads, [mesa |-> m, read |-> FALSE,
                                         out |-> [raised |-> FALSE,
                                                  escritorios |->
                                                      cache[cache_key(m)].escritorios]])
              /\ UNCHANGED cache
         ELSE LET data == Loaded(files[json_path(m)])
              IN /\ loads' = Append(loads, [mesa |-> m, read |-> TRUE, out |-> data])
                 /\ cache' = IF data.raised THEN cache
                             ELSE [cache EXCEPT ![cache_key(m)] = Cached(data.escritorios)]
    /\ UNCHANGED <<files, engineVars, clientVars, envVars, pureVars, cliVars, paceVars,
                   opVars, rowVars, dupVars>>

\* a backing file is written, removed or replaced between two calls
FileChanges ==
    /\ loads # <<>>
    /\ \E f \in JsonPaths, content \in FileContents :
         /\ content # files[f]
         /\ files' = [files EXCEPT ![f] = content]
    /\ UNCHANGED <<cache, loads, engineVars, clientVars, envVars, pureVars, cliVars,
                   paceVars, opVars, rowVars, dupVars>>

CacheNext ==
    \/ LoadValidEscritorios
    \/ FileChanges

CacheSpec == CacheInit /\ [][CacheNext]_vars

\* C34: the office registry cache is a pure memoization keyed by business
\* unit: after the first call of _load_valid_escritorios for a mesa, whether
\* it succeeded or failed, every later call for that mesa returns what the
\* first returned without reading the backing file, and no step removes or
\* replaces a cache entry.
C34_CacheIsPureMemoization ==
    [][/\ \A k \in CacheKeys : cache[k].cached => cache'[k] = cache[k]
       /\ \A i, j \in DOMAIN loads' :
             (i < j /\ loads'[i].mesa = loads'[j].mesa) =>
                 /\ ~loads'[j].read
                 /\ loads'[j].out = loads'[i].out]_vars

\* ------------------------------------------------------------------------
\* the results and the counters of the report
\* ------------------------------------------------------------------------
\* how many elements of the sequence of case numbers or results are for cnj
Occurrences(cnj, seq, CnjOf(_)) ==
    Cardinality({i \in DOMAIN seq : CnjOf(seq[i]) = cnj})

AsIs(cnj) == cnj
CnjOfResult(res) == res.cnj

\* MatchPhase is over
AfterMatch == pc \in {"Origin", "Purge", "Stale", "Done"}

\* C35: after a run in which MatchPhase executes, report.results holds one
\* entry per element of the input list, duplicates included, and
\* successfully_moved + failed_movements = len(report.results) =
\* total_processed; when MatchPhase is skipped, results is empty and both
\* counters are 0 while total_processed is the length of the input list.
C35_OneResultPerInput ==
    AfterMatch =>
        /\ report.total_processed = Len(cnj_list)
        /\ IF deletion_stage_empty
           THEN /\ report.results = <<>>
                /\ report.successfully_moved = 0
                /\ report.failed_movements = 0
           ELSE /\ \A cnj \in Listed \cup {report.results[i].cnj : i \in DOMAIN report.results} :
                      Occurrences(cnj, report.results, CnjOfResult)
                          = Occurrences(cnj, cnj_list, AsIs)
                /\ Len(report.results) = Len(cnj_list)
                /\ report.successfully_moved + report.failed_movements
                      = Len(report.results)
                /\ Len(report.results) = report.total_processed

\* a finished run over a list that names one case number twice: one result
\* moved its deal, the other failed
C35_DuplicateCounted ==
    /\ pc = "Done"
    /\ ~deletion_stage_empty
    /\ Len(cnj_list) = 2
    /\ cnj_list[1] = cnj_list[2]
    /\ Len(report.results) = 2
    /\ report.successfully_moved = 1
    /\ report.failed_movements = 1

\* a finished run over a non-empty list in which MatchPhase was skipped
C35_SkippedMatchDone ==
    /\ pc = "Done"
    /\ deletion_stage_empty
    /\ cnj_list # <<>>
    /\ report.results = <<>>

\* the deals of the deletion stage, as the run found it, whose case number is
\* not in the preserve set
StaleCandidates ==
    {d \in DealIds : crm0[d].StageId = deletion_stage_id /\ CnjLabel(d) \notin preserved}

\* C36: successfully_deleted and skipped_deletions are written by
\* StaleCleanupPhase only and hold the counters of its loop; the deletions of
\* PurgeConfirmedPhase, made or failed, change nothing in the report, so that
\* successfully_deleted is at most the number of deletion-stage deals outside
\* the preserve set.
C36_OnlyStaleCleanupCounted ==
    [][/\ (\/ report'.successfully_deleted # report.successfully_deleted
           \/ report'.skipped_deletions # report.skipped_deletions) => pc = "Stale"
       /\ pc = "Purge" => report' = report
       /\ (pc = "Stale" /\ step = "delete") =>
             /\ counts'.deleted >= counts.deleted
             /\ counts'.deleted + counts'.skipped <= counts.deleted + counts.skipped + 1
       /\ (pc = "Stale" /\ pc' = "Done") =>
             /\ report'.successfully_deleted = counts'.deleted
             /\ report'.skipped_deletions = counts'.skipped
       /\ pc' # "Start" =>
             report'.successfully_deleted <= Cardinality(StaleCandidates')]_vars

\* a finished run that deleted one deal in the purge of the target stage and
\* the other deal in the cleanup: the report counts the second one only
C36_PurgeNotCounted ==
    /\ pc = "Done"
    /\ target_delete_stats.deleted + target_delete_stats.skipped > 0
    /\ report.successfully_deleted = 1
    /\ report.skipped_deletions = 0
    /\ \A d \in DealIds : crm[d].StageId = NoStage

\* ------------------------------------------------------------------------
\* target-stage deals with the "already exists" error
\* ------------------------------------------------------------------------
\* the error description of the deal's case number says "ja existe"
AlreadyExists(d) == JaExiste(ErrorDescription(d))

\* the step is the iteration of the loop of OriginPropagationPhase for a deal
\* with that error: no client call, nothing written, _move_origin_deal not
\* entered
SkipsOriginDeal ==
    (pc = "Origin" /\ step = "loop" /\ AlreadyExists(Head(queue))) =>
        /\ lastCall' = NoCall
        /\ crm' = crm
        /\ report' = report
        /\ cur' = NoCur

\* a call made by OriginPropagationPhase on an origin deal is made for a
\* target-stage deal without that error
OriginCallsForOthers ==
    (pc = "Origin" /\ lastCall' # NoCall /\ lastCall'[3] \in OriginIds) =>
        IF step = "loop" THEN ~AlreadyExists(Head(queue)) ELSE ~AlreadyExists(cur.deal)

\* C37: for a target-stage deal whose case number has an error description
\* with "ja existe", OriginPropagationPhase makes no call on the origin deal
\* (no get_deal_by_id, no note, no stage update) and adds nothing to
\* origin_stages_used, and PurgeConfirmedPhase still deletes the deal: outside
\* a dry run each such deal it found gets its delete_deal call before the
\* phase ends.
C37_ExistingLeadSkippedThenPurged ==
    [][/\ SkipsOriginDeal
       /\ OriginCallsForOthers
       /\ (pc = "Purge" /\ step = "loop" /\ ~dry_run) =>
             /\ lastCall' = <<"delete_deal", "Purge", Head(queue)>>
             /\ pc' = "Stale" => \A i \in DOMAIN Tail(queue) : ~AlreadyExists(Tail(queue)[i])
      ]_vars

\* ------------------------------------------------------------------------
\* the deletion stage taken to be empty
\* ------------------------------------------------------------------------
\* C38: when the first query of the deletion stage raises or returns no
\* deals, the run takes the stage to be empty: MatchPhase and
\* StaleCleanupPhase issue no call and no deal of the deletion stage is moved
\* or deleted, while OriginPropagationPhase and PurgeConfirmedPhase still
\* query the target stage and work on what it holds.
C38_QueryFailureSkipsDeletionStage ==
    [][/\ (pc = "Start" /\ (raised' \/ StageEmptyAtStart)) => deletion_stage_empty'
       /\ (pc # "Start" /\ deletion_stage_empty) =>
             /\ \A d \in DealIds : crm0[d].StageId = deletion_stage_id => crm'[d] = crm0[d]
             /\ lastCall' # NoCall => lastCall'[2] \in {"Origin", "Purge"}
             /\ pc = "Match" => (pc' = "Origin" /\ report'.results = <<>>)
             /\ (pc = "Origin" /\ step = "search") =>
                   lastCall' = <<"search_deals_by_stage", "Origin", target_stage_id>>
             /\ (pc = "Purge" /\ step = "search") =>
                   lastCall' = <<"search_deals_by_stage", "Purge", target_stage_id>>
             /\ pc = "Stale" => (pc' = "Done" /\ lastCall' = NoCall)
      ]_vars

\* a finished run whose first query failed although the deletion stage held a
\* deal: that deal is as it was, the origin deal of the target-stage deal was
\* handled and the target-stage deal was deleted
C38_TargetStageStillHandled ==
    /\ pc = "Done"
    /\ deletion_stage_empty
    /\ ~StageEmptyAtStart
    /\ ~dry_run
    /\ report.origin_stages_used # {}
    /\ target_delete_stats.deleted = 1
    /\ \E d \in DealIds : crm0[d].StageId = target_stage_id /\ crm[d].StageId = NoStage
    /\ \E d \in DealIds : crm0[d].StageId = deletion_stage_id /\ crm[d] = crm0[d]

\* ------------------------------------------------------------------------
\* the token of the Parceiros client
\* ------------------------------------------------------------------------
\* the step calls this method of the Parceiros client
ParceirosCall(name) == lastCall' # NoCall /\ lastCall'[1] = name

\* C39: _deal_exists_in_parceiros never calls get_leads_by_cnj on a client
\* without a token: it calls authenticate first exactly when no token is
\* held, makes no lookup when authenticate fails, and a token once held is
\* kept and used for every later deal without another authenticate.
C39_AuthenticateOnceThenReuse ==
    [][/\ ParceirosCall("get_leads_by_cnj") => (token /\ has_parceiros)
       /\ ParceirosCall("authenticate") => (~token /\ has_parceiros)
       /\ (pc = "Stale" /\ step = "loop" /\ cur'.deal # 0 /\ has_parceiros) =>
             step' = IF token THEN "lookup" ELSE "auth"
       /\ (pc = "Stale" /\ step = "auth") =>
             IF raised' THEN ~token' /\ step' # "lookup" /\ cur'.check \in {"", "auth failed"}
             ELSE token' /\ step' = "lookup"
       /\ token => token'
      ]_vars

\* in a dry run the first deal was skipped after its lookup and the second
\* deal's lookup was made with the token got for the first
C39_TokenReusedForSecondDeal ==
    /\ has_parceiros
    /\ dry_run
    /\ token
    /\ counts.skipped = 1
    /\ cur.deal = 2
    /\ lastCall = <<"get_leads_by_cnj", "Stale", 2>>

\* ------------------------------------------------------------------------
\* remove_duplicate_deals (src/src/delete_duplicate_deals.py)
\* ------------------------------------------------------------------------
MaxPipeline == 3

\* $top of get_deals_by_pipeline, scaled down
PageSize == 2

\* CreateDate: time stamps in one format, so that their order as strings is
\* their order in time
CreateDates == 1..2

\* a deal of the pipeline: its case number field, stripped ("" = no field or
\* a blank one), and its creation date
PipelineDeals == [cnj : {"", "A", "B"}, CreateDate : CreateDates]

\* the deal as the API returns it, with its Id
WithId(s) == [i \in DOMAIN s |-> [Id |-> i, cnj |-> s[i].cnj, CreateDate |-> s[i].CreateDate]]

DupInit ==
    /\ EngineIdle /\ SingleRun /\ ClientIdle
    /\ PureIdle /\ CliIdle /\ PaceIdle /\ OpIdle /\ RowIdle /\ CacheIdle
    /\ pipeline_deals \in UNION {{WithId(s) : s \in [1..n -> PipelineDeals]} : n \in 1..MaxPipeline}
    /\ simulate \in BOOLEAN
    /\ dup_pc = ""
    /\ fetched = <<>>
    /\ to_delete = <<>>
    /\ attempts = {}
    /\ total_deleted = 0

\* ploomes_client.py, lines 403-421: the pages are requested one after the
\* other; a PloomesAPIError ends the loop and the deals of the pages before
\* are returned
get_deals_by_pipeline(all) ==
    {SubSeq(all, 1, n) : n \in {k * PageSize : k \in 0..(Len(all) \div PageSize)}
                              \cup {Len(all)}}

\* lines 92-100: the keys of cnj_groups, in the order of their first deal
RECURSIVE GroupKeys(_)
GroupKeys(deals) ==
    IF deals = <<>> THEN <<>>
    ELSE LET rest == GroupKeys(SubSeq(deals, 1, Len(deals) - 1))
             cnj == deals[Len(deals)].cnj
         IN IF cnj = "" \/ \E i \in DOMAIN rest : rest[i] = cnj THEN rest
            ELSE Append(rest, cnj)

\* line 123: sorted(group_deals, key=CreateDate), a stable sort
RECURSIVE SortedByCreateDate(_)
SortedByCreateDate(group_deals) ==
    IF group_deals = <<>> THEN <<>>
    ELSE LET first == CHOOSE i \in DOMAIN group_deals :
                         \A j \in DOMAIN group_deals :
                            \/ group_deals[i].CreateDate < group_deals[j].CreateDate
                            \/ (group_deals[i].CreateDate = group_deals[j].CreateDate /\ i <= j)
         IN <<group_deals[first]>>
            \o SortedByCreateDate(SubSeq(group_deals, 1, first - 1)
                                  \o SubSeq(group_deals, first + 1, Len(group_deals)))

\* lines 116-126: deals_to_delete of the groups, in the order of the loop
RECURSIVE DealsToDelete(_, _)
DealsToDelete(deals, keys) ==
    IF keys = <<>> THEN <<>>
    ELSE LET group_deals == SelectSeq(deals, LAMBDA d : d.cnj = Head(keys))
         IN Tail(SortedByCreateDate(group_deals)) \o DealsToDelete(deals, Tail(keys))

\* lines 84-126: the deals are fetched and grouped by case number
GroupDeals ==
    /\ dup_pc = ""
    /\ pipeline_deals # <<>>
    /\ \E deals \in get_deals_by_pipeline(pipeline_deals) :
         /\ fetched' = deals
         /\ to_delete' = DealsToDelete(deals, GroupKeys(deals))
         /\ dup_pc' = IF deals = <<>> THEN "returned" ELSE "loop"
    /\ UNCHANGED <<pipeline_deals, simulate, attempts, total_deleted, engineVars, clientVars,
                   envVars, pureVars, cliVars, paceVars, opVars, rowVars, cacheVars>>

\* lines 128-143: one deal of deals_to_delete; an exception of delete_deal
\* leaves the function
DeleteDuplicate ==
    /\ dup_pc = "loop"
    /\ to_delete # <<>>
    /\ to_delete' = Tail(to_delete)
    /\ IF simulate
       THEN /\ total_deleted' = total_deleted + 1
            /\ UNCHANGED <<attempts, dup_pc>>
       ELSE /\ attempts' = attempts \cup {Head(to_delete).Id}
            /\ \E out \in {"ok", "fail", "raise"} :
                 /\ total_deleted' = IF out = "ok" THEN total_deleted + 1 ELSE total_deleted
                 /\ dup_pc' = IF out = "raise" THEN "raised" ELSE "loop"
    /\ UNCHANGED <<pipeline_deals, simulate, fetched, engineVars, clientVars, envVars, pureVars,
                   cliVars, paceVars, opVars, rowVars, cacheVars>>

\* lines 145-148: return True
DupReturn ==
    /\ dup_pc = "loop"
    /\ to_delete = <<>>
    /\ dup_pc' = "returned"
    /\ UNCHANGED <<pipeline_deals, simulate, fetched, to_delete, attempts, total_deleted,
                   engineVars, clientVars, envVars, pureVars, cliVars, paceVars, opVars,
                   rowVars, cacheVars>>

DupNext ==
    \/ GroupDeals
    \/ DeleteDuplicate
    \/ DupReturn

DupSpec == DupInit /\ [][DupNext]_vars

\* the deals of the pipeline that carry the case number
Carriers(cnj) == {i \in DOMAIN pipeline_deals : pipeline_deals[i].cnj = cnj}

\* C40: for every case number carried by n > 1 deals of the pipeline,
\* remove_duplicate_deals calls delete_deal for exactly n - 1 of them and
\* leaves out one with the smallest CreateDate; a deal without a case number
\* or with a case number of its own is never deleted; in a dry run
\* delete_deal is not called.
C40_AllButOldestDeleted ==
    /\ simulate => attempts = {}
    /\ \A i \in attempts :
          pipeline_deals[i].cnj # "" /\ Cardinality(Carriers(pipeline_deals[i].cnj)) > 1
    /\ \A cnj \in {"A", "B"} :
          Cardinality(Carriers(cnj)) > 1 =>
             /\ \E k \in Carriers(cnj) \ attempts :
                   \A j \in Carriers(cnj) : pipeline_deals[k].CreateDate <= pipeline_deals[j].CreateDate
             /\ (dup_pc \in {"returned", "raised"} /\ ~simulate) =>
                   Cardinality(Carriers(cnj) \cap attempts) = Cardinality(Carriers(cnj)) - 1

====
